---------------------------- MODULE Spec2Model ----------------------------
(***************************************************************************)
(* FloatChat chat orchestrator: the SSE query stream, the confirmation     *)
(* protocol, the NL-to-SQL pipeline with its three-check validator, the    *)
(* executor and the per-session context store.                             *)
(*                                                                         *)
(* One chat session is modelled.  Each request slot of Req carries one     *)
(* HTTP request (a query stream or a confirm stream); the slots run        *)
(* concurrently, as the requests of a multi-worker server do, and meet     *)
(* only in the database rows and in the context store.                     *)
(***************************************************************************)
EXTENDS Integers, Sequences, FiniteSets, TLC

(***************************************************************************)
(* Bounds of the model.                                                    *)
(***************************************************************************)
\* number of concurrent request slots
NReq == 2

Req == 1..NReq

(***************************************************************************)
(* Program constants (app/config.py).                                      *)
(***************************************************************************)
QUERY_MAX_RETRIES == 3
QUERY_MAX_ROWS == 1000
QUERY_CONFIRMATION_THRESHOLD == 50000
QUERY_CONTEXT_MAX_TURNS == 20

NoSql == "<none>"
NoError == "<none>"

Min(a, b) == IF a <= b THEN a ELSE b

(***************************************************************************)
(* SQL texts an LLM reply may carry, and what sqlglot makes of each.       *)
(* An AST is described by: whether parsing succeeded, the number of        *)
(* non-None statements, the kind of the top node, the kinds of all nodes   *)
(* of the tree, the table names referenced and the CTE aliases.            *)
(***************************************************************************)
SqlCount == "SELECT COUNT(*) FROM profiles"
SqlLimit == "SELECT * FROM profiles LIMIT 5"
SqlDelete == "DELETE FROM profiles"
SqlForeign == "SELECT * FROM pg_shadow"
SqlTwo == "SELECT 1; SELECT 2"
SqlGarbage == "SELEC FROM"
SqlCteWrite == "WITH d AS (DELETE FROM profiles RETURNING *) SELECT * FROM d"

SqlTexts == {SqlCount, SqlLimit, SqlDelete, SqlForeign, SqlTwo, SqlGarbage, SqlCteWrite}

ALLOWED_TABLES == {"floats", "datasets", "profiles", "measurements",
                   "float_positions", "ingestion_jobs", "ocean_regions",
                   "dataset_versions", "dataset_embeddings", "float_embeddings",
                   "mv_float_latest_position", "mv_dataset_stats"}

READONLY_TYPES == {"Select", "Union", "Intersect", "Except", "Subquery", "CTE", "With"}

WRITE_TYPES == {"Insert", "Update", "Delete", "Drop", "Create", "Alter", "Merge",
                "TruncateTable", "Grant", "Revoke", "Command"}

Ast(ok, n, top, nodes, tables, ctes) ==
    [ok |-> ok, stmts |-> n, top |-> top, nodes |-> nodes, tables |-> tables, ctes |-> ctes]

\* sqlglot.parse(sql, dialect="postgres") on the texts above
Parse(sql) ==
    CASE sql = SqlCount    -> Ast(TRUE, 1, "Select", {"Select", "Count", "Star", "Table"}, {"profiles"}, {})
      [] sql = SqlLimit    -> Ast(TRUE, 1, "Select", {"Select", "Star", "Table", "Limit"}, {"profiles"}, {})
      [] sql = SqlDelete   -> Ast(TRUE, 1, "Delete", {"Delete", "Table"}, {"profiles"}, {})
      [] sql = SqlForeign  -> Ast(TRUE, 1, "Select", {"Select", "Star", "Table"}, {"pg_shadow"}, {})
      [] sql = SqlTwo      -> Ast(TRUE, 2, "Select", {"Select", "Literal"}, {}, {})
      [] sql = SqlCteWrite -> Ast(TRUE, 1, "Select", {"Select", "With", "CTE", "Delete", "Star", "Table"},
                                  {"profiles", "d"}, {"d"})
      [] OTHER             -> Ast(FALSE, 0, "", {}, {}, {})

(***************************************************************************)
(* validator.py                                                            *)
(***************************************************************************)
Valid == [valid |-> TRUE, check_failed |-> "none"]
Invalid(check) == [valid |-> FALSE, check_failed |-> check]

\* the read-only check without the walk over the descendants
check_readonly_nowalk(tree) ==
    IF tree.top \notin READONLY_TYPES THEN Invalid("readonly") ELSE Valid

check_readonly(tree) ==
    IF tree.top \notin READONLY_TYPES THEN Invalid("readonly")
    ELSE IF tree.nodes \cap WRITE_TYPES # {} THEN Invalid("readonly")
    ELSE Valid

check_whitelist(tree, allowed_tables) ==
    LET real_tables == tree.tables \ tree.ctes
        disallowed == real_tables \ allowed_tables
    IN IF disallowed # {} THEN Invalid("whitelist") ELSE Valid

validate_ast(parsed, allowed_tables) ==
    IF ~parsed.ok THEN Invalid("syntax")
    ELSE IF parsed.stmts # 1 THEN Invalid("syntax")
    ELSE IF ~check_readonly(parsed).valid THEN check_readonly(parsed)
    ELSE IF ~check_whitelist(parsed, allowed_tables).valid
         THEN check_whitelist(parsed, allowed_tables)
    ELSE Valid

validate_sql(sql) == validate_ast(Parse(sql), ALLOWED_TABLES)

\* the three checks, one by one, as the specification of "validated"
PassesSyntax(sql) == Parse(sql).ok /\ Parse(sql).stmts = 1
PassesReadonly(sql) == Parse(sql).top \in READONLY_TYPES /\ Parse(sql).nodes \cap WRITE_TYPES = {}
PassesWhitelist(sql) == (Parse(sql).tables \ Parse(sql).ctes) \subseteq ALLOWED_TABLES
PassesAllChecks(sql) == PassesSyntax(sql) /\ PassesReadonly(sql) /\ PassesWhitelist(sql)

(***************************************************************************)
(* pipeline.py: nl_to_sql                                                  *)
(* An LLM reply is a thrown exception, a text with no SQL in it, or a      *)
(* text from which _extract_sql takes one of SqlTexts.                     *)
(***************************************************************************)
LlmThrow == "<throw>"
LlmProse == "<prose>"
Replies == {LlmThrow, LlmProse} \cup SqlTexts

\* the replies the LLM gives in the chat model
ChatReplies == Replies \ {SqlLimit}

extract_sql(response_text) == IF response_text = LlmProse THEN NoSql ELSE response_text

\* enumerated: the validation errors the error text lists
PipelineResult(sql, error, retries, verrs, calls, enumerated) ==
    [sql |-> sql, error |-> error, retries_used |-> retries,
     validation_errors |-> verrs, llm_calls |-> calls, enumerated |-> enumerated]

\* validation_errors[:3]
first_errors(verrs) == SubSeq(verrs, 1, Min(3, Len(verrs)))

\* validation_errors[-3:]
last_errors(verrs) ==
    SubSeq(verrs, IF Len(verrs) > 3 THEN Len(verrs) - 2 ELSE 1, Len(verrs))

\* a loop that takes a throw of the LLM call for one more failed attempt
RECURSIVE attempt_loop_retrying(_, _, _, _)
attempt_loop_retrying(replies, attempt, verrs, max_retries) ==
    IF attempt >= max_retries
    THEN PipelineResult(NoSql, "exhausted", max_retries, verrs, attempt, last_errors(verrs))
    ELSE LET reply == replies[attempt + 1] IN
         IF reply = LlmThrow
         THEN attempt_loop_retrying(replies, attempt + 1, Append(verrs, "throw"), max_retries)
         ELSE LET sql == extract_sql(reply) IN
              IF sql = NoSql
              THEN attempt_loop_retrying(replies, attempt + 1, Append(verrs, "extract"),
                                         max_retries)
              ELSE LET vr == validate_sql(sql) IN
                   IF ~vr.valid
                   THEN attempt_loop_retrying(replies, attempt + 1,
                                              Append(verrs, vr.check_failed), max_retries)
                   ELSE PipelineResult(sql, NoError, attempt, verrs, attempt + 1, <<>>)

\* a loop that counts the accepted attempt among the retries
RECURSIVE attempt_loop_counting(_, _, _, _)
attempt_loop_counting(replies, attempt, verrs, max_retries) ==
    IF attempt >= max_retries
    THEN PipelineResult(NoSql, "exhausted", max_retries, verrs, attempt, last_errors(verrs))
    ELSE LET reply == replies[attempt + 1] IN
         IF reply = LlmThrow
         THEN PipelineResult(NoSql, "llm_call_failed", attempt, verrs, attempt + 1, <<>>)
         ELSE LET sql == extract_sql(reply) IN
              IF sql = NoSql
              THEN attempt_loop_counting(replies, attempt + 1, Append(verrs, "extract"),
                                         max_retries)
              ELSE LET vr == validate_sql(sql) IN
                   IF ~vr.valid
                   THEN attempt_loop_counting(replies, attempt + 1,
                                              Append(verrs, vr.check_failed), max_retries)
                   ELSE PipelineResult(sql, NoError, attempt + 1, verrs, attempt + 1, <<>>)

\* the attempt loop of nl_to_sql from attempt `attempt` on; `replies` holds
\* what the LLM would answer to each call, `verrs` the errors so far
RECURSIVE attempt_loop(_, _, _, _)
attempt_loop(replies, attempt, verrs, max_retries) ==
    IF attempt >= max_retries
    THEN PipelineResult(NoSql, "exhausted", max_retries, verrs, attempt, last_errors(verrs))
    ELSE LET reply == replies[attempt + 1] IN
         IF reply = LlmThrow
         THEN PipelineResult(NoSql, "llm_call_failed", attempt, verrs, attempt + 1, <<>>)
         ELSE LET sql == extract_sql(reply) IN
              IF sql = NoSql
              THEN attempt_loop(replies, attempt + 1, Append(verrs, "extract"), max_retries)
              ELSE LET vr == validate_sql(sql) IN
                   IF ~vr.valid
                   THEN attempt_loop(replies, attempt + 1,
                                     Append(verrs, vr.check_failed), max_retries)
                   ELSE PipelineResult(sql, NoError, attempt, verrs, attempt + 1, <<>>)

\* has_key: whether get_llm_client finds the provider's API key
nl_to_sql(replies, has_key, max_retries) ==
    IF ~has_key
    THEN PipelineResult(NoSql, "no_api_key", 0, <<>>, 0, <<>>)
    ELSE attempt_loop(replies, 0, <<>>, max_retries)

(***************************************************************************)
(* executor.py                                                             *)
(* The read-only database is the environment: asked to run a statement it  *)
(* throws, or yields `avail` rows (what the statement as written selects), *)
(* whose cells are JSON-native or not (timestamps, numerics).              *)
(***************************************************************************)
\* texts whose last 80 characters, upper-cased, contain LIMIT
TailLimitTexts == {SqlLimit}

has_limit(sql) == sql \in TailLimitTexts

\* the cap of the statement that is run: "SELECT * FROM (sql) AS _q LIMIT n"
\* unless the text already carries a LIMIT (0 stands for "run verbatim")
apply_limit(sql, max_rows) == IF has_limit(sql) THEN 0 ELSE max_rows

RowChoices(sql) == IF sql = SqlLimit THEN {5} ELSE {0, QUERY_MAX_ROWS + 1}

DbOutcomes(sql) ==
    [throws : {TRUE}, avail : {0}, jsonable : {TRUE}]
    \cup [throws : {FALSE}, avail : RowChoices(sql), jsonable : BOOLEAN]

ExecutionResult(error, n, truncated, jsonable) ==
    [error |-> error, row_count |-> n, truncated |-> truncated, jsonable |-> jsonable]

execute_sql(sql, db, max_rows) ==
    IF db.throws
    THEN ExecutionResult(TRUE, 0, FALSE, TRUE)
    ELSE LET cap == apply_limit(sql, max_rows)
             n == IF cap = 0 THEN db.avail ELSE Min(db.avail, cap)
         IN ExecutionResult(FALSE, n, n >= max_rows /\ ~has_limit(sql), db.jsonable)

\* estimate_rows: the planner's "Plan Rows", or Unknown on any failure
Unknown == -1
Estimates == {Unknown, QUERY_CONFIRMATION_THRESHOLD, QUERY_CONFIRMATION_THRESHOLD + 1}

(***************************************************************************)
(* chat.py: the state.                                                     *)
(*                                                                         *)
(* A handler's steps that touch only its own variables, the LLM and the    *)
(* read-only analytic store are taken together with the access to the      *)
(* session and message tables that follows them: a generator runs from    *)
(* its first statement to its commit in one action, and each access of     *)
(* append_context to the context store is an action of its own.            *)
(***************************************************************************)
VARIABLES
    session,    \* the chat_session row: is_active, message_count
    messages,   \* the chat_message rows of the session, in creation order
    context,    \* the context store's list for the session
    kind,       \* per request: "none", "query" or "confirm"
    pc,         \* per request: where its handler stands
    http,       \* per request: the HTTP status answered (0: none yet)
    events,     \* per request: the SSE events emitted so far
    loc,        \* per request: the handler's local variables
    execLog,    \* <<request, sql>> for every call of execute_sql
    estLog,     \* the requests that called estimate_rows
    last,       \* the handler step taken last: its request, what its callees returned
    call,       \* a library function called on its own: its arguments, its result
    kv,         \* the key-value store such a function works on
    obs         \* what is remembered of the calls made so far

chatvars == <<session, messages, context, kind, pc, http, events, loc, execLog, estLog, last>>
libvars == <<call, kv, obs>>
vars == <<chatvars, libvars>>

\* no library function is called on its own while the chat requests run
NoCall == [fn |-> "none"]

\* a key that is not in the store
Absent == [absent |-> TRUE]

\* the texts the result cache is asked about
CacheKeys == {SqlCount, SqlLimit}

\* The store: whether it is reachable, and under the keys
\* query:context:{session_id}, query_cache:{md5 of the sql} and
\* chat_suggestions what it holds.  The md5 digests of the texts of
\* CacheKeys differ, so the text stands for its key.
NoKv == [up |-> TRUE, ctx |-> Absent, cache |-> [k \in CacheKeys |-> Absent],
         sugg |-> Absent]

\* the settings the store functions read, the number of appends made, and
\* the turns appended since the context key was last absent
\* and, for each cached text, the last result within the row ceiling that
\* was offered to the cache since its time to live last ran out
NoObs == [max_turns |-> QUERY_CONTEXT_MAX_TURNS, n |-> 0, appended |-> <<>>,
          lastset |-> [k \in CacheKeys |-> Absent]]

ErrGeneration == "error/generation_failure"
ErrExecution == "error/execution_error"

Message(role, status, sql, error, meta, r) ==
    [role |-> role, status |-> status, sql |-> sql, error |-> error,
     meta |-> meta, req |-> r]

\* a turn of the context list; of its fields the role is kept
Turn(role) == [role |-> role]

InitLoc ==
    [confirm |-> FALSE, redis |-> FALSE, count_read |-> 0, sql |-> NoSql, msg |-> 0,
     todo |-> <<>>, turns |-> <<>>]

\* What is known of the handler step taken last.
\* req: its request; message_id: the id a confirm request named;
\* confirm: request.confirm of a query request;
\* pipeline: the error nl_to_sql returned ("ok" for none, "none" if not called);
\* above: whether estimate_rows returned more than the threshold;
\* exec: whether execute_sql returned rows ("ok"), an error, or was not called
Ran(r, message_id, confirm, pipeline, above, exec) ==
    [req |-> r, message_id |-> message_id, confirm |-> confirm, pipeline |-> pipeline,
     above |-> above, exec |-> exec]

Returned(er) == IF er.error THEN "error" ELSE "ok"

\* The session as create_session leaves it, or with one earlier turn that
\* q_defer has left awaiting confirmation (request 0 stands for that turn).
EarlierTurn ==
    <<Message("user", "none", NoSql, NoError, "none", 0),
      Message("assistant", "pending_confirmation", SqlCount, NoError, "estimate", 0)>>

InitChat(rows, count) ==
    /\ session = [is_active |-> TRUE, message_count |-> count]
    /\ messages = rows
    /\ context = <<>>
    /\ kind = [r \in Req |-> "none"]
    /\ pc = [r \in Req |-> "idle"]
    /\ http = [r \in Req |-> 0]
    /\ events = [r \in Req |-> <<>>]
    /\ loc = [r \in Req |-> InitLoc]
    /\ execLog = {}
    /\ estLog = {}
    /\ last = Ran(0, 0, FALSE, "none", FALSE, "none")

Init ==
    /\ InitChat(<<>>, 0) \/ InitChat(EarlierTurn, 1)
    /\ call = NoCall
    /\ kv = NoKv
    /\ obs = NoObs

Emit(r, es) == events' = [events EXCEPT ![r] = @ \o es]
Goto(r, p) == pc' = [pc EXCEPT ![r] = p]
Answer(r, k, status) ==
    /\ kind' = [kind EXCEPT ![r] = k]
    /\ http' = [http EXCEPT ![r] = status]

\* the stream ends with the events es; the handler's locals are gone
Finish(r, es) ==
    /\ Emit(r, es)
    /\ Goto(r, "finished")
    /\ loc' = [loc EXCEPT ![r] = InitLoc]

\* the request slots are taken in order of their numbers
Arrives(r) ==
    /\ pc[r] = "idle"
    /\ \A q \in Req : q < r => pc[q] # "idle"

\* a lookup by id alone, which finds a deleted session too
get_session_by_id == IF session.is_active THEN 200 ELSE 200

\* what _get_active_session answers
get_active_session == IF session.is_active THEN 200 ELSE 404

(***************************************************************************)
(* DELETE /chat/sessions/{id}                                              *)
(***************************************************************************)
delete_session ==
    /\ get_active_session = 200
    /\ session' = [session EXCEPT !.is_active = FALSE]
    /\ UNCHANGED <<messages, context, kind, pc, http, events, loc, execLog, estLog, last, libvars>>

(***************************************************************************)
(* POST /chat/sessions/{id}/query                                          *)
(***************************************************************************)
\* lines 390-405: session check, user message persisted and committed
query_sse(r) ==
    /\ Arrives(r)
    /\ \E confirm \in BOOLEAN, redis \in BOOLEAN :
         IF get_active_session = 404
         THEN /\ Answer(r, "query", 404)
              /\ Goto(r, "finished")
              /\ UNCHANGED <<messages, loc>>
         ELSE /\ Answer(r, "query", 200)
              /\ messages' = Append(messages,
                     Message("user", "none", NoSql, NoError, "none", r))
              /\ loc' = [loc EXCEPT ![r].confirm = confirm, ![r].redis = redis,
                                    ![r].count_read = session.message_count]
              /\ Goto(r, "q_stream")
    /\ UNCHANGED <<session, context, events, execLog, estLog, last, libvars>>

\* what nl_to_sql can return to the orchestrator: its sql and its error
PipelineOutcomes ==
    { [sql |-> res.sql, error |-> res.error] :
        res \in { nl_to_sql(replies, has_key, QUERY_MAX_RETRIES) :
                    replies \in [1..QUERY_MAX_RETRIES -> ChatReplies], has_key \in BOOLEAN } }

\* db.add(message); session.message_count += n; db.commit()
\* commit_ok: whether the commit returns or raises
Persist(r, message, n, commit_ok) ==
    IF commit_ok
    THEN /\ messages' = Append(messages, message)
         /\ session' = [session EXCEPT !.message_count = loc[r].count_read + n]
    ELSE UNCHANGED <<messages, session>>

\* an except arm that would yield the error only
ExceptArmNoDone == <<ErrExecution>>

\* the `except Exception` arm of a generator: error (execution_error), done
ExceptArm == <<ErrExecution, "done">>

\* the two yields in the other order
SuggestionsFirst == <<"suggestions", "results">>

\* the two yields of a turn that succeeded: results, then suggestions
Answered == <<"results", "suggestions">>

\* What follows the commit of a turn that succeeded: the appends to the
\* context store, then done.  With redis_client None every append_context
\* returns at once.
Contexts(r, seen, turns) ==
    IF loc[r].redis
    THEN /\ Emit(r, seen)
         /\ loc' = [loc EXCEPT ![r] = [InitLoc EXCEPT !.redis = TRUE, !.todo = turns]]
         /\ Goto(r, "ctx_get")
    ELSE Finish(r, seen \o <<"done">>)

\* _sse_event("results", ...): json.dumps raises on a cell that is not JSON-native
results_ok(er) == er.jsonable

\* a pipeline-error branch that would report the failure as execution_error
q_pipeline_error_untyped(r, seen, res) ==
    \E commit_ok \in BOOLEAN :
      /\ Persist(r, Message("assistant", "error", NoSql, "generation_failure",
                            "none", r), 1, commit_ok)
      /\ Finish(r, seen \o ExceptArm)
      /\ last' = Ran(r, 0, loc[r].confirm, res.error, FALSE, "none")
      /\ UNCHANGED <<execLog, estLog>>

\* lines 424-446: the pipeline failed
q_pipeline_error(r, seen, res) ==
    \E commit_ok \in BOOLEAN :
      /\ Persist(r, Message("assistant", "error", NoSql, "generation_failure",
                            "none", r), 1, commit_ok)
      /\ Finish(r, seen \o (IF commit_ok THEN <<ErrGeneration, "done">> ELSE ExceptArm))
      /\ last' = Ran(r, 0, loc[r].confirm, res.error, FALSE, "none")
      /\ UNCHANGED <<execLog, estLog>>

\* lines 464-486: the large result is deferred to confirmation
q_defer(r, seen, sql) ==
    \E commit_ok \in BOOLEAN :
      /\ last' = Ran(r, 0, loc[r].confirm, "ok", TRUE, "none")
      /\ Persist(r, Message("assistant", "pending_confirmation", sql, NoError,
                            "estimate", r), 1, commit_ok)
      /\ Finish(r, seen \o (IF commit_ok THEN <<"awaiting_confirmation", "done">>
                                         ELSE ExceptArm))
      /\ UNCHANGED execLog

\* an execution-error branch that would leave the SQL out of the message
q_exec_error_nosql(r, seen, sql) ==
    \E commit_ok \in BOOLEAN :
      /\ Persist(r, Message("assistant", "error", NoSql, "execution_error",
                            "none", r), 1, commit_ok)
      /\ Finish(r, seen \o (IF commit_ok THEN <<ErrExecution, "done">> ELSE ExceptArm))

\* lines 496-517: the execution failed
q_exec_error(r, seen, sql) ==
    \E commit_ok \in BOOLEAN :
      /\ Persist(r, Message("assistant", "error", sql, "execution_error",
                            "none", r), 1, commit_ok)
      /\ Finish(r, seen \o (IF commit_ok THEN <<ErrExecution, "done">> ELSE ExceptArm))

\* lines 519-579: results, suggestions, the completed assistant message
q_success(r, seen, sql, er) ==
    IF ~results_ok(er)
    THEN /\ Finish(r, seen \o ExceptArm)
         /\ UNCHANGED <<messages, session>>
    ELSE \E commit_ok \in BOOLEAN :
           /\ Persist(r, Message("assistant", "completed", sql, NoError, "result", r),
                      2, commit_ok)
           /\ IF commit_ok
              THEN Contexts(r, seen \o Answered,
                            <<Turn("user"), Turn("assistant")>>)
              ELSE Finish(r, seen \o Answered \o ExceptArm)

\* a confirmation check that would never defer
NeverDeferred(estimated, confirm) == FALSE

\* the check with >= in place of >
DeferredAtThreshold(estimated, confirm) ==
    /\ estimated # Unknown
    /\ estimated >= QUERY_CONFIRMATION_THRESHOLD
    /\ ~confirm

\* the condition of lines 459-463
Deferred(estimated, confirm) ==
    /\ estimated # Unknown
    /\ estimated > QUERY_CONFIRMATION_THRESHOLD
    /\ ~confirm

\* lines 488-494 and what follows: executing, execute_sql
q_execute(r, seen, sql, estimated) ==
    \E db \in DbOutcomes(sql) :
      LET er == execute_sql(sql, db, QUERY_MAX_ROWS) IN
      /\ execLog' = execLog \cup {<<r, sql>>}
      /\ last' = Ran(r, 0, loc[r].confirm, "ok",
                     estimated > QUERY_CONFIRMATION_THRESHOLD, Returned(er))
      /\ IF er.error
         THEN q_exec_error(r, seen \o <<"executing">>, sql)
         ELSE q_success(r, seen \o <<"executing">>, sql, er)

\* lines 448-486: interpreting, estimate_rows, the confirmation check
q_interpret(r, seen, sql) ==
    /\ estLog' = estLog \cup {r}
    /\ \E estimated \in Estimates :
         IF Deferred(estimated, loc[r].confirm)
         THEN q_defer(r, seen \o <<"interpreting">>, sql)
         ELSE q_execute(r, seen \o <<"interpreting">>, sql, estimated)

\* lines 407-579: the generator of the query stream, up to its commit
event_generator(r) ==
    /\ pc[r] = "q_stream"
    /\ \E res \in PipelineOutcomes :
         IF res.error # NoError \/ res.sql = NoSql
         THEN q_pipeline_error(r, <<"thinking">>, res)
         ELSE q_interpret(r, <<"thinking">>, res.sql)
    /\ UNCHANGED <<context, kind, http, libvars>>

(***************************************************************************)
(* context.py: append_context, in its two store accesses (GET, then SET).  *)
(* `todo` holds the turns the generator still has to append; after the     *)
(* last one it emits done (lines 581-597 and 749-757).                     *)
(***************************************************************************)
\* turns[-max_turns:] kept the wrong way round: the oldest turns survive
trim_oldest(turns, max_turns) ==
    IF Len(turns) > max_turns /\ max_turns > 0
    THEN SubSeq(turns, 1, max_turns)
    ELSE turns

trim(turns, max_turns) ==
    IF Len(turns) > max_turns /\ max_turns > 0
    THEN SubSeq(turns, Len(turns) - max_turns + 1, Len(turns))
    ELSE turns


\* redis_client.get(key)
append_context_get(r) ==
    /\ pc[r] = "ctx_get"
    /\ loc' = [loc EXCEPT ![r].turns = context]
    /\ Goto(r, "ctx_set")
    /\ UNCHANGED events
    /\ UNCHANGED <<session, messages, context, kind, http, execLog, estLog, last, libvars>>

\* append, trim to max_turns, SET with the TTL
append_context_set(r) ==
    /\ pc[r] = "ctx_set"
    /\ context' = trim(Append(loc[r].turns, Head(loc[r].todo)), QUERY_CONTEXT_MAX_TURNS)
    /\ IF Len(loc[r].todo) = 1
       THEN Finish(r, <<"done">>)
       ELSE /\ loc' = [loc EXCEPT ![r].todo = Tail(@), ![r].turns = <<>>]
            /\ Goto(r, "ctx_get")
            /\ UNCHANGED events
    /\ UNCHANGED <<session, messages, kind, http, execLog, estLog, last, libvars>>

(***************************************************************************)
(* POST /chat/sessions/{id}/query/confirm                                  *)
(* message_id 0 stands for an id that is no UUID; an id above the number   *)
(* of rows for one that names no message.                                  *)
(***************************************************************************)
\* the SELECT of lines 647-652
pending_message(message_id) ==
    IF /\ message_id \in 1..Len(messages)
       /\ messages[message_id].status = "pending_confirmation"
    THEN message_id
    ELSE 0

\* a lookup by id alone, answering 400 for a message that is not pending
confirm_status_400(message_id) ==
    IF get_active_session = 404 THEN 404
    ELSE IF message_id = 0 THEN 400
    ELSE IF message_id \notin 1..Len(messages) THEN 404
    ELSE IF pending_message(message_id) = 0 THEN 400
    ELSE IF messages[message_id].sql = NoSql THEN 400
    ELSE 200

\* lines 636-666: what the endpoint answers before it changes anything
confirm_status(message_id) ==
    IF get_active_session = 404 THEN 404
    ELSE IF message_id = 0 THEN 400
    ELSE IF pending_message(message_id) = 0 THEN 404
    ELSE IF messages[message_id].sql = NoSql THEN 400
    ELSE 200

\* lines 636-666: session check, message lookup
confirm_query(r) ==
    /\ Arrives(r)
    /\ \E message_id \in 0..(Len(messages) + 1), redis \in BOOLEAN :
         LET status == confirm_status(message_id) IN
         /\ last' = Ran(r, message_id, FALSE, "none", FALSE, "none")
         /\ IF status # 200
            THEN /\ Answer(r, "confirm", status)
                 /\ Goto(r, "finished")
                 /\ UNCHANGED loc
            ELSE /\ kind' = [kind EXCEPT ![r] = "confirm"]
                 /\ loc' = [loc EXCEPT ![r].msg = message_id, ![r].redis = redis,
                                       ![r].sql = messages[message_id].sql]
                 /\ Goto(r, "c_found")
                 /\ UNCHANGED http
    /\ UNCHANGED <<session, messages, context, events, execLog, estLog, libvars>>

\* lines 668-670: status = "confirmed", commit
confirm_flip(r) ==
    /\ pc[r] = "c_found"
    /\ messages' = [messages EXCEPT ![loc[r].msg].status = "confirmed"]
    /\ http' = [http EXCEPT ![r] = 200]
    /\ Goto(r, "c_stream")
    /\ UNCHANGED <<session, context, kind, events, loc, execLog, estLog, last, libvars>>

\* pending_msg.<column> = ...; db.commit()
Update(m, changed, commit_ok) ==
    IF commit_ok
    THEN messages' = [messages EXCEPT ![m] = changed]
    ELSE UNCHANGED messages

\* lines 682-694: the execution failed; the same row goes to status error
c_exec_error(r, seen) ==
    \E commit_ok \in BOOLEAN :
      /\ Update(loc[r].msg,
                [messages[loc[r].msg] EXCEPT !.status = "error", !.error = "execution_error"],
                commit_ok)
      /\ Finish(r, seen \o (IF commit_ok THEN <<ErrExecution, "done">> ELSE ExceptArm))

\* lines 696-747: results, suggestions, the same row goes to status completed
c_success(r, seen, er) ==
    IF ~results_ok(er)
    THEN /\ Finish(r, seen \o ExceptArm)
         /\ UNCHANGED messages
    ELSE \E commit_ok \in BOOLEAN :
           /\ Update(loc[r].msg,
                     [messages[loc[r].msg] EXCEPT !.status = "completed", !.meta = "result"],
                     commit_ok)
           /\ IF commit_ok
              THEN Contexts(r, seen \o Answered,
                            <<Turn("assistant")>>)
              ELSE Finish(r, seen \o Answered \o ExceptArm)

\* lines 672-747: the generator of the confirm stream, up to its commit
confirm_generator(r) ==
    /\ pc[r] = "c_stream"
    /\ \E db \in DbOutcomes(loc[r].sql) :
         LET er == execute_sql(loc[r].sql, db, QUERY_MAX_ROWS) IN
         /\ execLog' = execLog \cup {<<r, loc[r].sql>>}
         /\ last' = Ran(r, loc[r].msg, FALSE, "none", FALSE, Returned(er))
         /\ IF er.error
            THEN c_exec_error(r, <<"executing">>)
            ELSE c_success(r, <<"executing">>, er)
    /\ UNCHANGED <<session, context, kind, http, estLog, libvars>>

(***************************************************************************)
(* The requests run concurrently.                                          *)
(***************************************************************************)
Next ==
    \/ delete_session
    \/ \E r \in Req : query_sse(r)
    \/ \E r \in Req : event_generator(r)
    \/ \E r \in Req : append_context_get(r)
    \/ \E r \in Req : append_context_set(r)
    \/ \E r \in Req : confirm_query(r)
    \/ \E r \in Req : confirm_flip(r)
    \/ \E r \in Req : confirm_generator(r)

Spec == Init /\ [][Next]_vars

(***************************************************************************)
(* Properties.                                                             *)
(***************************************************************************)
\* a stream that has ended, of a request of kind k
Ended(r, k) == kind[r] = k /\ http[r] = 200 /\ pc[r] = "finished"

Has(r, e) == \E i \in 1..Len(events[r]) : events[r][i] = e

HasError(r) == Has(r, ErrGeneration) \/ Has(r, ErrExecution)

Called(r) == \E e \in execLog : e[1] = r

Rows(r) == {i \in 1..Len(messages) : messages[i].req = r /\ messages[i].role = "assistant"}

\* C1: every SQL text handed to execute_sql, by a query or by a confirm, and
\* every SQL text stored in a message passes the syntax, the read-only and
\* the whitelist check.
C1_ValidatedOnly ==
    /\ \A e \in execLog : PassesAllChecks(e[2])
    /\ \A i \in 1..Len(messages) :
          messages[i].sql # NoSql => PassesAllChecks(messages[i].sql)

\* a query has executed its SQL and stored it, and a confirm has executed
\* the SQL of a pending message
C1_Witness ==
    \E q, c \in Req :
      /\ kind[q] = "query" /\ kind[c] = "confirm"
      /\ Called(q) /\ Called(c)
      /\ \E i \in Rows(q) : messages[i].sql # NoSql

\* the pipeline of the query request r ended in a terminal failure, and the
\* stream of r has ended
PipelineFailed(r) ==
    /\ last.req = r
    /\ last.pipeline \in {"exhausted", "llm_call_failed", "no_api_key"}
    /\ Ended(r, "query")

C3_DoneIsLast ==
    \A r \in Req :
      /\ (Ended(r, "query") \/ Ended(r, "confirm")) =>
           /\ events[r] # <<>>
           /\ events[r][Len(events[r])] = "done"
      /\ \A i \in 1..(Len(events[r]) - 1) : events[r][i] # "done"

\* a query stream ended by the except arm after its results, and a confirm
\* stream ended by a failed execution
C3_Witness ==
    \E q, c \in Req :
      /\ Ended(q, "query") /\ Has(q, "results") /\ Has(q, ErrExecution)
      /\ Ended(c, "confirm") /\ events[c] = <<"executing", ErrExecution, "done">>

\* C4 (as stated): no stream carries both an error event and a results event.
C4_Original ==
    \A r \in Req : ~(HasError(r) /\ Has(r, "results"))

Count(r, e) == Cardinality({i \in 1..Len(events[r]) : events[r][i] = e})

\* C5: a stream carries results at most once, and every suggestions event
\* of a stream comes after a results event of that stream.
C5_ResultsBeforeSuggestions ==
    \A r \in Req :
      /\ Count(r, "results") <= 1
      /\ \A i \in 1..Len(events[r]) :
           events[r][i] = "suggestions" =>
             \E j \in 1..(i - 1) : events[r][j] = "results"

\* a query stream and a confirm stream have both carried suggestions
C5_Witness ==
    \E q, c \in Req :
      /\ kind[q] = "query" /\ Has(q, "suggestions")
      /\ kind[c] = "confirm" /\ Has(c, "suggestions")

\* the query request r got valid SQL, was not to be deferred, and its
\* execution returned rows; its stream has ended
Executed(r) ==
    /\ last.req = r
    /\ last.pipeline = "ok"
    /\ (~last.above \/ last.confirm)
    /\ last.exec = "ok"
    /\ Ended(r, "query")

\* C6 (as stated): a query whose SQL validates, whose estimate does not
\* exceed the threshold or whose request carries confirm=true, and whose
\* execution succeeds has the stream thinking, interpreting, executing,
\* results, suggestions, done.
C6_Original ==
    \A r \in Req :
      Executed(r) =>
        events[r] = <<"thinking", "interpreting", "executing",
                      "results", "suggestions", "done">>

\* the estimate of the query request r exceeded the threshold, the request
\* carried no confirm flag; its stream has ended
Large(r) ==
    /\ last.req = r
    /\ last.pipeline = "ok"
    /\ last.above /\ ~last.confirm
    /\ Ended(r, "query")

NoExecution(r) == ~Has(r, "executing") /\ ~Has(r, "results") /\ ~Called(r)

NonEmptySql == \A i \in 1..Len(messages) :
                 messages[i].status = "pending_confirmation" => messages[i].sql # NoSql

C8_Original ==
    \A r \in Req :
      (last.req = r /\ Ended(r, "confirm")) =>
        /\ last.exec = "ok" =>
             events[r] = <<"executing", "results", "suggestions", "done">>
        /\ last.exec = "error" =>
             events[r] = <<"executing", ErrExecution, "done">>
        /\ ~Has(r, "thinking") /\ ~Has(r, "interpreting")

\* the step in which the confirm endpoint looks up the message of request r
Lookup(r) == pc[r] = "idle" /\ kind'[r] = "confirm"

\* the endpoint answered r with an error status
Rejected(r, status) == http'[r] = status /\ pc'[r] = "finished"

NothingDone ==
    /\ messages' = messages
    /\ execLog' = execLog
    /\ session' = session
    /\ context' = context

NotPending(id) ==
    /\ id \in 1..Len(messages)
    /\ messages[id].status # "pending_confirmation"

\* C9 (as stated): on an active session the confirm endpoint answers 404 when
\* the message id names no message, and 400 when the message exists but is
\* not in pending_confirmation or has no SQL; in both cases nothing is
\* executed and no message is changed.
C9_Original ==
    [][\A r \in Req :
         (Lookup(r) /\ session.is_active) =>
           LET id == last'.message_id IN
           /\ id > Len(messages) => Rejected(r, 404) /\ NothingDone
           /\ (NotPending(id) \/ (id \in 1..Len(messages) /\ messages[id].sql = NoSql)) =>
                Rejected(r, 400) /\ NothingDone]_vars

\* C9 (amended): the confirm endpoint answers 404 when the session is not
\* active, when the message id names no message and when it names a message
\* that is not in pending_confirmation; it answers 400 when the id is no
\* UUID or the pending message has no SQL; in all these cases nothing is
\* executed and nothing is changed, and in no other case is the request
\* rejected.
C9_Rejections ==
    [][\A r \in Req :
         Lookup(r) =>
           LET id == last'.message_id
               pending == id \in 1..Len(messages) /\ ~NotPending(id)
           IN
           /\ ~session.is_active => Rejected(r, 404)
           /\ (session.is_active /\ id = 0) => Rejected(r, 400)
           /\ (session.is_active /\ id > Len(messages)) => Rejected(r, 404)
           /\ (session.is_active /\ NotPending(id)) => Rejected(r, 404)
           /\ (session.is_active /\ pending /\ messages[id].sql = NoSql) =>
                Rejected(r, 400)
           /\ (session.is_active /\ pending /\ messages[id].sql # NoSql) =>
                pc'[r] = "c_found"
           /\ pc'[r] = "finished" => NothingDone]_vars

\* a second confirm of a message that was confirmed before was answered 404
C9_Witness ==
    \E r \in Req :
      /\ kind[r] = "confirm" /\ pc[r] = "finished" /\ http[r] = 404
      /\ last.req = r /\ last.exec = "none"
      /\ session.is_active
      /\ last.message_id \in 1..Len(messages)
      /\ messages[last.message_id].status \in {"confirmed", "completed", "error"}

\* the changes of status the confirmation protocol makes
Protocol ==
    {<<"pending_confirmation", "confirmed">>, <<"confirmed", "completed">>,
     <<"confirmed", "error">>}

\* a step of a confirm request, of a query request
ConfirmStep == \E r \in Req : kind'[r] = "confirm" /\ pc'[r] # pc[r]
QueryStep == \E r \in Req : kind'[r] = "query" /\ pc'[r] # pc[r]

\* C10 (as stated): messages are append-only; a persisted message changes
\* only by a step of the confirmation protocol, from pending_confirmation to
\* confirmed and from confirmed to completed or error; confirm inserts no
\* message; a completed or error message is never modified again.
C10_Original ==
    [][/\ Len(messages') >= Len(messages)
       /\ Len(messages') > Len(messages) => QueryStep /\ ~ConfirmStep
       /\ \A i \in 1..Len(messages) :
            messages'[i] # messages[i] =>
              /\ ConfirmStep
              /\ <<messages[i].status, messages'[i].status>> \in Protocol]_vars

UserRows(r) == {i \in 1..Len(messages) : messages[i].req = r /\ messages[i].role = "user"}

\* the status the assistant message of the query request that ran last is
\* to have: error after a pipeline or executor failure, pending_confirmation
\* after a deferral, completed after a success
TurnStatus ==
    IF last.pipeline # "ok" \/ last.exec = "error" THEN "error"
    ELSE IF last.exec = "none" THEN "pending_confirmation"
    ELSE "completed"

\* C11 (as stated): a query stream persists exactly one user message, before
\* its first event, and exactly one assistant message, of status completed
\* on success, error on a pipeline or executor failure, pending_confirmation
\* on a deferral.
C11_Original ==
    \A r \in Req :
      /\ (kind[r] = "query" /\ http[r] = 200) => Cardinality(UserRows(r)) = 1
      /\ Ended(r, "query") => Cardinality(Rows(r)) = 1
      /\ (Ended(r, "query") /\ last.req = r) =>
           \A i \in Rows(r) : messages[i].status = TurnStatus

\* the message a confirm request r that ran last was about
Confirmed(r) == IF last.req = r THEN {last.message_id} ELSE {}

\* C12 (as stated): whenever a query stream or a confirm stream has emitted
\* an error event, the message list holds an assistant message of status
\* error for that turn.
C12_Original ==
    \A r \in Req :
      /\ (Ended(r, "query") /\ HasError(r)) =>
           \E i \in Rows(r) : messages[i].status = "error"
      /\ (Ended(r, "confirm") /\ HasError(r)) =>
           \A i \in Confirmed(r) : messages[i].status = "error"

Quiescent == \A r \in Req : pc[r] \in {"idle", "finished"}

\* all messages of the session were persisted by the requests of Req
CountedFromZero == \A i \in 1..Len(messages) : messages[i].req \in Req

\* C13 (as stated): when no stream is running, message_count equals the
\* number of messages stored for the session.
C13_Original ==
    (Quiescent /\ CountedFromZero) => session.message_count = Len(messages)

(***************************************************************************)
(* nl_to_sql called on its own, on every sequence of LLM replies.          *)
(***************************************************************************)
\* bound on settings.QUERY_MAX_RETRIES
MaxRetries == 4

\* replies of each kind: a throw, no SQL, valid SQL, SQL failing each check
PipeReplies == {LlmThrow, LlmProse, SqlCount, SqlGarbage, SqlDelete, SqlForeign}

NoResult == "<pending>"

InitPipeline ==
    /\ InitChat(<<>>, 0)
    /\ kv = NoKv
    /\ obs = NoObs
    /\ call \in [fn : {"nl_to_sql"}, replies : [1..MaxRetries -> PipeReplies],
                 has_key : BOOLEAN, max_retries : 0..MaxRetries,
                 done : {FALSE}, result : {NoResult}]

run_nl_to_sql ==
    /\ call.fn = "nl_to_sql" /\ ~call.done
    /\ call' = [call EXCEPT !.done = TRUE,
                            !.result = nl_to_sql(call.replies, call.has_key,
                                                 call.max_retries)]
    /\ UNCHANGED <<chatvars, kv, obs>>

SpecPipeline == InitPipeline /\ [][run_nl_to_sql]_vars

\* what the attempt with this reply adds to validation_errors
ErrorOf(reply) ==
    IF reply = LlmProse THEN "extract"
    ELSE IF ~PassesSyntax(reply) THEN "syntax"
    ELSE IF ~PassesReadonly(reply) THEN "readonly"
    ELSE "whitelist"

Fails(reply) == reply # LlmThrow /\ (reply = LlmProse \/ ~PassesAllChecks(reply))

\* the key is there and every attempt fails extraction or validation
AllFail == call.has_key /\ \A i \in 1..call.max_retries : Fails(call.replies[i])

Errors == [i \in 1..call.max_retries |-> ErrorOf(call.replies[i])]

ExecutionFailed(r) ==
    /\ last.req = r
    /\ last.exec = "error"
    /\ Ended(r, "query")

ExecutionErrorStream ==
    <<"thinking", "interpreting", "executing", ErrExecution, "done">>

\* the assistant message i is an error message carrying the SQL r executed
ErrorRow(r, i) ==
    /\ messages[i].status = "error"
    /\ messages[i].error = "execution_error"
    /\ <<r, messages[i].sql>> \in execLog

MaxTurns == 3
MaxAppends == 5

\* json.dumps / json.loads of a list of turns (strings and integers only)
json_dumps(v) == [json |-> v]
json_loads(raw) == raw.json

stored_turns(raw) == IF raw = Absent THEN <<>> ELSE json_loads(raw)

\* what a library call leaves behind: its result, and whether it raised
\* and the client it was given
Outcome(fn, redis_client, result) ==
    [fn |-> fn, client |-> redis_client, result |-> result, raised |-> FALSE]
Raised(fn, redis_client) ==
    [fn |-> fn, client |-> redis_client, result |-> "<raised>", raised |-> TRUE]

\* get_context without its try: the error of the client reaches the caller
get_context_uncaught(redis_client) ==
    /\ call' = IF ~redis_client THEN Outcome("get_context", redis_client, <<>>)
               ELSE IF ~kv.up THEN Raised("get_context", redis_client)
               ELSE Outcome("get_context", redis_client, stored_turns(kv.ctx))
    /\ UNCHANGED <<chatvars, kv, obs>>

get_context(redis_client) ==
    /\ call' = Outcome("get_context", redis_client,
                  IF ~redis_client THEN <<>>              \* line 58
                  ELSE IF ~kv.up THEN <<>>                \* except, line 73
                  ELSE stored_turns(kv.ctx))
    /\ UNCHANGED <<chatvars, kv, obs>>

append_context(redis_client) ==
    /\ obs.n < MaxAppends
    /\ LET turn == [id |-> obs.n + 1]
           stores == redis_client /\ kv.up
           turns == trim(Append(stored_turns(kv.ctx), turn), obs.max_turns)
       IN /\ kv' = IF stores THEN [kv EXCEPT !.ctx = json_dumps(turns)] ELSE kv
          /\ obs' = [obs EXCEPT !.n = @ + 1,
                                !.appended = IF stores THEN Append(@, turn) ELSE @]
    /\ call' = Outcome("append_context", redis_client, "None")
    /\ UNCHANGED chatvars

clear_context(redis_client) ==
    /\ LET deletes == redis_client /\ kv.up
       IN /\ kv' = IF deletes THEN [kv EXCEPT !.ctx = Absent] ELSE kv
          /\ obs' = IF deletes THEN [obs EXCEPT !.appended = <<>>] ELSE obs
    /\ call' = Outcome("clear_context", redis_client, "None")
    /\ UNCHANGED chatvars

\* QUERY_CONTEXT_TTL seconds pass without an append: the store drops the key
context_expires ==
    /\ kv.ctx # Absent
    /\ kv' = [kv EXCEPT !.ctx = Absent]
    /\ obs' = [obs EXCEPT !.appended = <<>>]
    /\ UNCHANGED <<chatvars, call>>

InitContext ==
    /\ InitChat(<<>>, 0)
    /\ call = NoCall
    /\ kv = NoKv
    /\ obs \in {[NoObs EXCEPT !.max_turns = m] : m \in 1..MaxTurns}

NextContext ==
    \/ append_context(TRUE)
    \/ get_context(TRUE)
    \/ clear_context(TRUE)
    \/ context_expires

SpecContext == InitContext /\ [][NextContext]_vars

\* the last k elements of a sequence
LastOf(seq, k) == SubSeq(seq, Len(seq) - Min(Len(seq), k) + 1, Len(seq))

\* C16: after any sequence of appends the stored context is the most
\* recently appended turns, in append order, the oldest ones dropped, and it
\* is never longer than the configured maximum; a list read from the store
\* is a run of consecutive turns and obeys the bound too.
C16_RecentTurns ==
    /\ stored_turns(kv.ctx) = LastOf(obs.appended, obs.max_turns)
    /\ Len(stored_turns(kv.ctx)) <= obs.max_turns
    /\ \A i \in 1..Len(stored_turns(kv.ctx)) - 1 :
           stored_turns(kv.ctx)[i].id < stored_turns(kv.ctx)[i + 1].id
    /\ call.fn = "get_context" =>
           /\ Len(call.result) <= obs.max_turns
           /\ \A i \in 1..Len(call.result) - 1 :
                  call.result[i + 1].id = call.result[i].id + 1

\* more turns were appended than the maximum, and the trimmed list was read
C16_Witness ==
    /\ obs.max_turns >= 2
    /\ Len(obs.appended) > obs.max_turns
    /\ call.fn = "get_context"
    /\ Len(call.result) = obs.max_turns
    /\ call.result[Len(call.result)].id = obs.n

(***************************************************************************)
(* app/cache/redis_cache.py on its own: the result cache.  A result is a   *)
(* list of row dicts; what matters of it is its number of rows and whether *)
(* every cell is a value json.dumps can encode (str, number, bool, None),  *)
(* which a timestamp, a Decimal or a geography cell of a query result is   *)
(* not.                                                                    *)
(***************************************************************************)
REDIS_CACHE_MAX_ROWS == 10000

RowCounts == {0, REDIS_CACHE_MAX_ROWS, REDIS_CACHE_MAX_ROWS + 1}
Results == {v \in [rows : RowCounts, native : BOOLEAN] : v.rows = 0 => v.native}

\* json.dumps(result) returns a text rather than raising TypeError
json_encodable(result) == result.native

\* get_cached_result returning None
Miss == [miss |-> TRUE]

CacheCall(fn, redis_client, sql_string, result, returned) ==
    [fn |-> fn, client |-> redis_client, sql |-> sql_string, value |-> result,
     result |-> returned, raised |-> FALSE]

set_cached_result(sql_string, result, redis_client) ==
    LET fits == result.rows <= REDIS_CACHE_MAX_ROWS
        \* redis_client.set(key, json.dumps(result), ex=ttl) returns
        stored == fits /\ redis_client /\ kv.up /\ json_encodable(result)
    IN /\ kv' = IF stored
                THEN [kv EXCEPT !.cache[sql_string] = json_dumps(result)]
                ELSE kv
       /\ call' = CacheCall("set_cached_result", redis_client, sql_string, result, stored)
       /\ obs' = IF fits THEN [obs EXCEPT !.lastset[sql_string] = result] ELSE obs
       /\ UNCHANGED chatvars

get_cached_result(sql_string, redis_client) ==
    /\ call' = CacheCall("get_cached_result", redis_client, sql_string, Miss,
                  IF ~(redis_client /\ kv.up) THEN Miss      \* except, line 48
                  ELSE IF kv.cache[sql_string] = Absent THEN Miss
                  ELSE json_loads(kv.cache[sql_string]))
    /\ UNCHANGED <<chatvars, kv, obs>>

invalidate_all_query_cache(redis_client) ==
    LET keys == {k \in CacheKeys : kv.cache[k] # Absent}
        deletes == redis_client /\ kv.up
    IN /\ kv' = IF deletes THEN [kv EXCEPT !.cache = [k \in CacheKeys |-> Absent]]
                ELSE kv
       /\ obs' = IF deletes THEN [obs EXCEPT !.lastset = [k \in CacheKeys |-> Absent]]
                 ELSE obs
       /\ call' = Outcome("invalidate_all_query_cache", redis_client,
                          IF deletes THEN Cardinality(keys) ELSE 0)
       /\ UNCHANGED chatvars

\* REDIS_CACHE_TTL_SECONDS pass after the last set of a key
cache_expires(k) ==
    /\ kv.cache[k] # Absent \/ obs.lastset[k] # Absent
    /\ kv' = [kv EXCEPT !.cache[k] = Absent]
    /\ obs' = [obs EXCEPT !.lastset[k] = Absent]
    /\ UNCHANGED <<chatvars, call>>

InitCache ==
    /\ InitChat(<<>>, 0)
    /\ call = NoCall
    /\ kv = NoKv
    /\ obs = NoObs

NextCache ==
    \/ \E k \in CacheKeys, v \in Results : set_cached_result(k, v, TRUE)
    \/ \E k \in CacheKeys : get_cached_result(k, TRUE)
    \/ invalidate_all_query_cache(TRUE)
    \/ \E k \in CacheKeys : cache_expires(k)

SpecCache == InitCache /\ [][NextCache]_vars

GetStep == call'.fn = "get_cached_result" /\ call' # call
SetStep == call'.fn = "set_cached_result" /\ call' # call

\* C17: a get returns the result of the last set of that key that was
\* within the row ceiling and within the time to live, and a miss if there
\* is none; a set above the ceiling stores nothing and reports it.
C17_Original ==
    [][/\ GetStep =>
           call'.result = IF obs.lastset[call'.sql] # Absent
                          THEN obs.lastset[call'.sql]
                          ELSE Miss
       /\ SetStep /\ call'.value.rows > REDIS_CACHE_MAX_ROWS =>
           kv' = kv /\ call'.result = FALSE]_vars

\* an earlier request has executed this text and answered with its rows
ExecutedBefore(r, sql) ==
    \E q \in Req \ {r} :
        /\ <<q, sql>> \in execLog
        /\ pc[q] = "finished"
        /\ Has(q, "results")

\* C18: a cache hit: when a SQL text is to be executed that an earlier
\* request has executed with success (the time to live has not run out, no
\* time passes in the model), the executor is not invoked a second time.
C18_Original ==
    [][\A r \in Req : \A sql \in SqlTexts :
          ExecutedBefore(r, sql) => ~(<<r, sql>> \in execLog' \ execLog)]_vars

(***************************************************************************)
(* app/chat/suggestions.py: the load-time suggestions.  `datasets` is what *)
(* get_all_summaries gives: some summaries, none, or an exception (which   *)
(* also stands for a failure while building).                              *)
(***************************************************************************)
Fallback == "_FALLBACK_SUGGESTIONS"
Built == "suggestions built from the dataset summaries"
Datasets == {"some", "none", "raises"}

generate_load_time_suggestions(redis_client, datasets) ==
    LET reaches == redis_client /\ kv.up
        hit == reaches /\ kv.sugg # Absent
        built == ~hit /\ datasets = "some"
    IN /\ call' = [fn |-> "generate_load_time_suggestions",
                   client |-> redis_client, datasets |-> datasets,
                   result |-> IF hit THEN json_loads(kv.sugg)
                              ELSE IF built THEN Built
                              ELSE Fallback,
                   raised |-> FALSE]
       /\ kv' = IF built /\ reaches THEN [kv EXCEPT !.sugg = json_dumps(Built)]
                ELSE kv
       /\ UNCHANGED <<chatvars, obs>>

(***************************************************************************)
(* The consumers of the store while it cannot be used: the store is down   *)
(* (every call on the client raises) or the caller has no client           *)
(* (_get_redis_client returned None).  The store holds what was written    *)
(* while it could be reached.                                              *)
(***************************************************************************)
Contents ==
    [up : BOOLEAN,
     ctx : {Absent, json_dumps(<<[id |-> 0]>>)},
     cache : [CacheKeys -> {Absent, json_dumps([rows |-> 0, native |-> TRUE])}],
     sugg : {Absent, json_dumps(Built)}]

InitDegraded ==
    /\ InitChat(<<>>, 0)
    /\ call = NoCall
    /\ kv \in Contents
    /\ obs = NoObs

NextDegraded ==
    \E redis_client \in BOOLEAN :
        /\ redis_client => ~kv.up
        /\ \/ get_context(redis_client)
           \/ append_context(redis_client)
           \/ clear_context(redis_client)
           \/ \E k \in CacheKeys : get_cached_result(k, redis_client)
           \/ \E k \in CacheKeys, v \in Results : set_cached_result(k, v, redis_client)
           \/ invalidate_all_query_cache(redis_client)
           \/ \E d \in Datasets : generate_load_time_suggestions(redis_client, d)

SpecDegraded == InitDegraded /\ [][NextDegraded]_vars

\* a consumer is called while the store is down or without a client
DegradedCall == call' # call /\ (~kv.up \/ ~call'.client)

Silent ==
    /\ ~call'.raised
    /\ kv' = kv
    /\ call'.fn = "get_cached_result" => call'.result = Miss
    /\ call'.fn = "set_cached_result" => call'.result = FALSE
    /\ call'.fn = "get_context" => call'.result = <<>>

SessionAnswer(fn, ok) ==
    [fn |-> fn, status |-> IF get_active_session = 200 THEN ok ELSE 404]

\* GET /chat/sessions/{id}
get_session ==
    /\ call' = SessionAnswer("get_session", 200)
    /\ UNCHANGED <<chatvars, kv, obs>>

\* PATCH /chat/sessions/{id}: the name is no part of the state
rename_session ==
    /\ call' = SessionAnswer("rename_session", 200)
    /\ UNCHANGED <<chatvars, kv, obs>>

\* GET /chat/sessions/{id}/messages
get_messages ==
    /\ call' = SessionAnswer("get_messages", 200)
    /\ UNCHANGED <<chatvars, kv, obs>>

\* DELETE /chat/sessions/{id}, with its answer: 204, or 404 the second time
delete_session_answer ==
    /\ call' = SessionAnswer("delete_session", 204)
    /\ session' = [session EXCEPT !.is_active = FALSE]
    /\ UNCHANGED <<messages, context, kind, pc, http, events, loc, execLog, estLog, last,
                   kv, obs>>

NextSession ==
    \/ get_session
    \/ rename_session
    \/ get_messages
    \/ delete_session_answer
    \/ \E r \in Req : query_sse(r)
    \/ \E r \in Req : confirm_query(r)

SpecSession == Init /\ [][NextSession]_vars

\* request r arrives in this step
Arriving(r) == pc[r] = "idle" /\ pc'[r] # "idle"

\* C20: once the session is soft-deleted it stays so, every later get,
\* rename, delete, list of messages, query and confirm addressed to it is
\* answered 404, and neither the delete nor any later request removes or
\* changes a message.
C20_SoftDeleted ==
    [][/\ ~session.is_active =>
           /\ ~session'.is_active
           /\ messages' = messages
           /\ call' # call => call'.status = 404
           /\ \A r \in Req : Arriving(r) => http'[r] = 404 /\ pc'[r] = "finished"
       /\ session.is_active /\ ~session'.is_active => messages' = messages]_vars

\* the session holds messages and is deleted; a second delete, a query and a
\* confirm of its pending message have been answered 404
C20_Witness ==
    /\ ~session.is_active
    /\ messages = EarlierTurn
    /\ call = [fn |-> "delete_session", status |-> 404]
    /\ \E q \in Req : kind[q] = "query" /\ http[q] = 404
    /\ \E c \in Req :
          /\ kind[c] = "confirm" /\ http[c] = 404
          /\ last.req = c
          /\ pending_message(last.message_id) # 0

(***************************************************************************)
(* GET /chat/sessions/{id}/messages with its cursor.  The message table    *)
(* holds the rows of the session addressed (owner 1) and of another        *)
(* session (owner 2); a row's position is its message_id and its           *)
(* created_at.  A cursor 0 stands for an id that is no UUID, one above the *)
(* number of rows for an id that names no message.                         *)
(***************************************************************************)
CHAT_MESSAGE_PAGE_SIZE == 50
MaxMessages == 3

Owners == {1, 2}
Tables == UNION {[1..n -> [owner : Owners]] : n \in 0..MaxMessages}

\* before_message_id left out of the request
NoCursor == -1
Cursors == {NoCursor} \cup 0..(MaxMessages + 1)
Limits == {1, 2}

\* ORDER BY created_at DESC LIMIT n, reversed: the n latest of the ids
LatestOf(ids, n) == {i \in ids : Cardinality({j \in ids : j > i}) < n}

cursor_status(before_message_id) ==
    IF get_active_session = 404 THEN 404
    ELSE IF before_message_id = NoCursor THEN 200
    ELSE IF before_message_id = 0 THEN 400
    ELSE IF before_message_id \notin 1..Len(messages) THEN 404   \* by id alone
    ELSE 200

get_messages_page(limit, before_message_id) ==
    LET status == cursor_status(before_message_id)
        page_size == Min(limit, CHAT_MESSAGE_PAGE_SIZE)
        mine == {i \in 1..Len(messages) : messages[i].owner = 1}
        older == IF before_message_id = NoCursor THEN mine
                 ELSE {i \in mine : i < before_message_id}
    IN /\ call' = [fn |-> "get_messages", limit |-> limit,
                   cursor |-> before_message_id, status |-> status,
                   page |-> IF status = 200 THEN LatestOf(older, page_size) ELSE {}]
       /\ UNCHANGED <<chatvars, kv, obs>>

InitMessages ==
    /\ \E rows \in Tables : InitChat(rows, 0)
    /\ call = NoCall
    /\ kv = NoKv
    /\ obs = NoObs

NextMessages ==
    \E limit \in Limits, cursor \in Cursors : get_messages_page(limit, cursor)

SpecMessages == InitMessages /\ [][NextMessages]_vars

\* the cursor is a well-formed id that is no message of the session addressed
ForeignCursor(c) ==
    /\ c > 0
    /\ ~(c \in 1..Len(messages) /\ messages[c].owner = 1)

\* C21: a listing whose cursor is not a message of the session is answered 404.
C21_Original ==
    call.fn = "get_messages" /\ ForeignCursor(call.cursor) => call.status = 404

(***************************************************************************)
(* app/search/indexer.py and tasks.py: index_dataset_task runs             *)
(* reindex_dataset and then refreshes the materialized views.  What the    *)
(* embedding service and the database do is drawn beforehand:              *)
(*   dataset  - index_dataset returns True, returns False (the embedding   *)
(*              call failed and the row is marked embedding_failed), or    *)
(*              raises (a database error);                                 *)
(*   floats   - index_floats_for_dataset embeds every batch, marks some    *)
(*              batch embedding_failed, or raises;                         *)
(*   views    - for each view, whether REFRESH ... CONCURRENTLY and the    *)
(*              plain REFRESH succeed;  commit - whether db.commit() does. *)
(***************************************************************************)
PhaseOutcomes == {"ok", "embedding_failed", "raises"}
Views == {"mv_float_latest_position", "mv_dataset_stats"}

NoFloats == [total |-> 0, succeeded |-> 0, failed |-> 0]

\* a call that returns a value or raises
Returns(value) == [raised |-> FALSE, value |-> value]
Raises == [raised |-> TRUE, value |-> "<exception>"]

\* index_dataset: True, or False with the row marked embedding_failed
index_dataset(outcome) ==
    IF outcome = "raises" THEN Raises ELSE Returns(outcome = "ok")

\* index_floats_for_dataset, for two floats in one batch
index_floats_for_dataset(outcome) ==
    IF outcome = "raises" THEN Raises
    ELSE IF outcome = "ok" THEN Returns([total |-> 2, succeeded |-> 2, failed |-> 0])
    ELSE Returns([total |-> 2, succeeded |-> 0, failed |-> 2])

\* try: x = f() / except Exception: x keeps its initial value
TryOr(attempt, initial) == IF attempt.raised THEN initial ELSE attempt.value

\* what reindex_dataset returns
reindex_result(dataset, floats) ==
    [dataset_indexed |-> TryOr(index_dataset(dataset), FALSE),
     floats |-> TryOr(index_floats_for_dataset(floats), NoFloats)]

InitIndexer ==
    /\ InitChat(<<>>, 0)
    /\ kv = NoKv
    /\ obs = NoObs
    /\ call \in [fn : {"index_dataset_task"}, pc : {"start"},
                  dataset : PhaseOutcomes, floats : PhaseOutcomes,
                  concurrently : [Views -> BOOLEAN], plain : [Views -> BOOLEAN],
                  commit : BOOLEAN,
                  ran : {<<>>}, refreshed : {{}}, raised : {FALSE},
                  result : {[dataset_indexed |-> FALSE, floats |-> NoFloats]}]

\* reindex_dataset without the try around its first phase
reindex_dataset_uncaught ==
    /\ call.fn = "index_dataset_task" /\ call.pc = "start"
    /\ call' = IF call.dataset = "raises"
               THEN [call EXCEPT !.pc = "done", !.ran = <<"index_dataset">>,
                                 !.raised = TRUE]
               ELSE [call EXCEPT !.pc = "refresh",
                        !.ran = <<"index_dataset", "index_floats_for_dataset">>,
                        !.result = reindex_result(call.dataset, call.floats)]
    /\ UNCHANGED <<chatvars, kv, obs>>

reindex_dataset ==
    /\ call.fn = "index_dataset_task" /\ call.pc = "start"
    /\ call' = [call EXCEPT !.pc = "refresh",
                  !.ran = <<"index_dataset", "index_floats_for_dataset">>,
                  !.result = reindex_result(call.dataset, call.floats)]
    /\ UNCHANGED <<chatvars, kv, obs>>

\* _refresh_materialized_views: each view is refreshed CONCURRENTLY or,
\* failing that, plainly; a view that fails twice is skipped; the commit is
\* tried and rolled back if it raises.  Then the task returns
\* reindex_dataset's result.
refresh_materialized_views ==
    /\ call.fn = "index_dataset_task" /\ call.pc = "refresh"
    /\ call' = [call EXCEPT !.pc = "done",
                  !.refreshed = IF call.commit
                                THEN {v \in Views : call.concurrently[v] \/ call.plain[v]}
                                ELSE {}]
    /\ UNCHANGED <<chatvars, kv, obs>>

NextIndexer == reindex_dataset \/ refresh_materialized_views

SpecIndexer == InitIndexer /\ [][NextIndexer]_vars

BothPhases == <<"index_dataset", "index_floats_for_dataset">>

\* C22: once reindex_dataset has returned, both phases have run, in
\* order, whatever the first one did; nothing was raised to the caller; and
\* the task ends with reindex_dataset's result whether or not the views
\* could be refreshed.
C22_BothPhases ==
    call.pc \in {"refresh", "done"} =>
        /\ call.ran = BothPhases
        /\ ~call.raised
        /\ call.result.dataset_indexed = (call.dataset = "ok")
        /\ call.floats = "ok" => call.result.floats.succeeded = 2
        /\ call.floats = "embedding_failed" => call.result.floats.failed = 2
        /\ call.floats = "raises" => call.result.floats = NoFloats

\* the first phase raised, the floats were indexed all the same, and the
\* task is done although no view could be refreshed
C22_Witness ==
    /\ call.pc = "done"
    /\ call.dataset = "raises"
    /\ call.floats = "ok"
    /\ call.result.floats.succeeded = 2
    /\ \A v \in Views : ~call.concurrently[v] /\ ~call.plain[v]
    /\ call.refreshed = {}

(***************************************************************************)
(* app/search/discovery.py: resolve_region_name.  The ocean_regions table  *)
(* is given by the similarity of each of its rows to the name asked for,   *)
(* in hundredths; a region is named by its position in the table.          *)
(***************************************************************************)
FUZZY_MATCH_THRESHOLD == 40
MaxRegions == 4

Scores == {0, FUZZY_MATCH_THRESHOLD - 1, FUZZY_MATCH_THRESHOLD}
RegionTables == UNION {[1..n -> Scores] : n \in 0..MaxRegions}

\* ORDER BY sim_score DESC LIMIT 5: the orders the database may return the
\* rows in (rows of equal similarity come in any order)
TopRows(scores) ==
    LET n == Min(Len(scores), 5)
    IN {rows \in [1..n -> 1..Len(scores)] :
           /\ \A i, j \in 1..n : i < j =>
                  rows[i] # rows[j] /\ scores[rows[i]] >= scores[rows[j]]
           /\ \A r \in 1..Len(scores) :
                  (\A i \in 1..n : rows[i] # r) =>
                      \A i \in 1..n : scores[rows[i]] >= scores[r]}

\* a threshold the best match has to exceed
accepts_above(best_score) == best_score > FUZZY_MATCH_THRESHOLD

accepts(best_score) == best_score >= FUZZY_MATCH_THRESHOLD

Found(region) == [found |-> TRUE, region |-> region, suggestions |-> <<>>]
\* ValueError, with the names the message lists
NotFound(suggestions) == [found |-> FALSE, region |-> 0, suggestions |-> suggestions]

InitRegions ==
    /\ InitChat(<<>>, 0)
    /\ kv = NoKv
    /\ obs = NoObs
    /\ call \in [fn : {"resolve_region_name"}, scores : RegionTables,
                  done : {FALSE}, result : {NotFound(<<>>)}]

resolve_region_name ==
    /\ call.fn = "resolve_region_name" /\ ~call.done
    /\ \E rows \in TopRows(call.scores) :
         call' = [call EXCEPT !.done = TRUE,
                    !.result = IF rows = <<>> THEN NotFound(<<>>)
                               ELSE IF accepts(call.scores[rows[1]]) THEN Found(rows[1])
                               ELSE NotFound(SubSeq(rows, 1, Min(Len(rows), 3)))]
    /\ UNCHANGED <<chatvars, kv, obs>>

SpecRegions == InitRegions /\ [][resolve_region_name]_vars

BestScore(scores) == CHOOSE b \in Scores :
    /\ \E r \in 1..Len(scores) : scores[r] = b
    /\ \A r \in 1..Len(scores) : scores[r] <= b

\* C23: the best match is returned if and only if its similarity is at
\* least the threshold; otherwise the error names at least one and at most
\* three regions, the most similar ones, and none only if the table is empty.
C23_Threshold ==
    call.done =>
        LET scores == call.scores
            res == call.result
            named == {res.suggestions[i] : i \in 1..Len(res.suggestions)}
        IN /\ res.found <=> (scores # <<>> /\ BestScore(scores) >= FUZZY_MATCH_THRESHOLD)
           /\ res.found => scores[res.region] = BestScore(scores)
           /\ ~res.found /\ scores = <<>> => res.suggestions = <<>>
           /\ ~res.found /\ scores # <<>> =>
                 /\ Len(res.suggestions) \in 1..3
                 /\ Cardinality(named) = Min(Len(scores), 3)
                 /\ \A r \in named : \A o \in (1..Len(scores)) \ named :
                        scores[r] >= scores[o]

\* four regions, the best one just below the threshold: three are suggested
C23_Witness ==
    /\ call.done
    /\ Len(call.scores) = 4
    /\ BestScore(call.scores) = FUZZY_MATCH_THRESHOLD - 1
    /\ ~call.result.found
    /\ Len(call.result.suggestions) = 3

(***************************************************************************)
(* validator.py on its own, over syntax trees rather than a few texts.     *)
(* What sqlglot.parse does with the string: its tokenizer raises           *)
(* TokenError (an unterminated string literal or comment, for instance     *)
(* SELECT * FROM profiles WHERE platform = 'abc ), its parser raises       *)
(* ParseError (ok = FALSE), or it returns the statements.  `uncast` says   *)
(* that the tree calls ST_DWithin without a ::geography cast, which        *)
(* _check_geography_casts reports as a warning.                            *)
(***************************************************************************)
TopKinds == {"Select", "Union", "Delete", "Command"}
InnerKinds == {"Table", "Delete", "CTE"}
TableNames == {"profiles", "pg_shadow", "d"}

Trees ==
    {t \in [ok : BOOLEAN, stmts : 0..2, top : TopKinds,
            nodes : SUBSET (TopKinds \cup InnerKinds),
            tables : SUBSET TableNames, ctes : SUBSET {"d"}] :
        /\ t.top \in t.nodes
        /\ Cardinality(t.nodes \cap TopKinds) = 1 \/ t.nodes \cap TopKinds = {t.top, "Delete"}
        /\ (t.ctes # {}) = ("CTE" \in t.nodes)
        /\ (t.tables # {}) = ("Table" \in t.nodes)}

\* the exception of sqlglot.parse that validate_sql does not catch
TokenError == [valid |-> FALSE, check_failed |-> "<TokenError raised>",
               warnings |-> 0, raised |-> TRUE]

validate_parsed(tokenizes, tree, uncast) ==
    IF ~tokenizes THEN TokenError             \* except ParseError does not apply
    ELSE LET vr == validate_ast(tree, ALLOWED_TABLES)
         IN [valid |-> vr.valid, check_failed |-> vr.check_failed,
             warnings |-> IF vr.valid /\ uncast THEN 1 ELSE 0, raised |-> FALSE]

InitValidator ==
    /\ InitChat(<<>>, 0)
    /\ kv = NoKv
    /\ obs = NoObs
    /\ call \in [fn : {"validate_sql"}, tokenizes : BOOLEAN, tree : Trees,
                  uncast : BOOLEAN, done : {FALSE}, result : {TokenError}]

run_validate_sql ==
    /\ call.fn = "validate_sql" /\ ~call.done
    /\ call' = [call EXCEPT !.done = TRUE,
                  !.result = validate_parsed(call.tokenizes, call.tree, call.uncast)]
    /\ UNCHANGED <<chatvars, kv, obs>>

SpecValidator == InitValidator /\ [][run_validate_sql]_vars

\* the three checks on what the string parses to
ParsesToOne(c) == c.tokenizes /\ c.tree.ok /\ c.tree.stmts = 1
ReadOnlyTree(c) == c.tree.top \in READONLY_TYPES /\ c.tree.nodes \cap WRITE_TYPES = {}
AllowedTables(c) == (c.tree.tables \ c.tree.ctes) \subseteq ALLOWED_TABLES

FirstFailing(c) ==
    IF ~ParsesToOne(c) THEN "syntax"
    ELSE IF ~ReadOnlyTree(c) THEN "readonly"
    ELSE IF ~AllowedTables(c) THEN "whitelist"
    ELSE "none"

\* C24: validate_sql accepts exactly the strings that parse to one
\* read-only statement over allowed tables; it answers every other string
\* with a rejection tagged with the first failing check; a warning rejects
\* nothing.
C24_Original ==
    call.done =>
        /\ ~call.result.raised
        /\ call.result.valid <=> FirstFailing(call) = "none"
        /\ call.result.check_failed = FirstFailing(call)

\* confirm request q hands the SQL of its message to the executor in this step
ConfirmExecutes(q) ==
    /\ kind[q] = "confirm"
    /\ pc[q] = "c_stream"
    /\ pc'[q] # "c_stream"

\* the request that ran last was another confirm, which has executed the
\* SQL of message m
ExecutedByOther(q, m) ==
    /\ last.req \in Req \ {q}
    /\ kind[last.req] = "confirm"
    /\ last.message_id = m
    /\ last.exec # "none"

\* C25: the SQL of a pending message is executed at most once: no confirm
\* request reaches the executor with a message whose SQL another confirm
\* request has executed.
C25_Original ==
    [][\A q \in Req :
          ConfirmExecutes(q) => ~ExecutedByOther(q, loc[q].msg)]_vars

\* C26: whenever a message is created, its session is not soft-deleted.
C26_Original ==
    [][Len(messages') > Len(messages) => session.is_active]_vars

\* what the turn of query request r has added to the counter: 2 with a
\* completed assistant message, 1 with an error or a pending one, nothing
\* when no assistant message was committed
Increment(r) ==
    IF Rows(r) = {} THEN 0
    ELSE IF \E i \in Rows(r) : messages[i].status = "completed" THEN 2
    ELSE 1

RECURSIVE SumOfIncrements(_)
SumOfIncrements(rs) ==
    IF rs = {} THEN 0
    ELSE LET r == CHOOSE x \in rs : TRUE
         IN Increment(r) + SumOfIncrements(rs \ {r})

\* the counter of the session before the requests of Req
CountBefore == IF \E i \in 1..Len(messages) : messages[i].req = 0 THEN 1 ELSE 0

\* C27: when the query turns on a session, concurrent or not, have all
\* finished, message_count has grown by the sum of their increments.
C27_Original ==
    (\A r \in Req : kind[r] = "query" /\ pc[r] = "finished") =>
        session.message_count = CountBefore + SumOfIncrements(Req)

\* request r writes the context list back in this step
ContextWritten(r) == pc[r] = "ctx_set" /\ pc'[r] # "ctx_set"

\* C28: no turn is lost when streams append to the context of one session
\* concurrently: every write leaves in the store all the turns that were
\* there, followed by the new one, up to the max-turns window.
C28_Original ==
    [][\A r \in Req :
          ContextWritten(r) =>
              context' = trim(Append(context, Head(loc[r].todo)),
                              QUERY_CONTEXT_MAX_TURNS)]_vars

(***************************************************************************)
(* Streams that run to their end: the event loop resumes every generator   *)
(* that has started until it returns, and the body of the confirm endpoint *)
(* runs from its lookup to its commit.  Arrivals of requests and the       *)
(* deletion of the session are up to the clients.                          *)
(***************************************************************************)
StreamsRun ==
    \A r \in Req :
      /\ WF_vars(event_generator(r))
      /\ WF_vars(append_context_get(r))
      /\ WF_vars(append_context_set(r))
      /\ WF_vars(confirm_flip(r))
      /\ WF_vars(confirm_generator(r))

SpecStreamsRun == Spec /\ StreamsRun

\* the ids the messages of a session can have
MessageIds == 1..(2 * NReq + 1)

HasStatus(m, statuses) == m <= Len(messages) /\ messages[m].status \in statuses

\* C29: a message that the confirm endpoint has flipped to confirmed
\* eventually has status completed or error, whatever happens in the
\* confirm stream; no message stays confirmed forever.
C29_Original ==
    \A m \in MessageIds :
      HasStatus(m, {"confirmed"}) ~> HasStatus(m, {"completed", "error"})

(***************************************************************************)
(* The confirmation check of the query stream (chat.py 456-494) on every   *)
(* answer EXPLAIN can give: estimate_rows (executor.py 91-137), the check, *)
(* and the branch taken.                                                   *)
(***************************************************************************)
\* Plan Rows values around the threshold
PlanRows == {0, 1, QUERY_CONFIRMATION_THRESHOLD - 1, QUERY_CONFIRMATION_THRESHOLD,
             QUERY_CONFIRMATION_THRESHOLD + 1, 2 * QUERY_CONFIRMATION_THRESHOLD}

\* what db.execute("EXPLAIN (FORMAT JSON) ...") gives: it raises, it has no
\* row, its plan is not a non-empty list, the plan has no "Plan Rows", or
\* the plan has one
Explains ==
    [kind : {"raises", "no_row", "no_list", "no_plan_rows"}, rows : {0}]
    \cup [kind : {"plan_rows"}, rows : PlanRows]

\* executor.py 110-137
estimate_rows(explain) ==
    IF explain.kind = "raises" THEN Unknown
    ELSE IF explain.kind = "no_row" THEN Unknown
    ELSE IF explain.kind = "plan_rows" THEN explain.rows
    ELSE Unknown

InitConfirmation ==
    /\ InitChat(<<>>, 0)
    /\ kv = NoKv
    /\ obs = NoObs
    /\ call \in [fn : {"confirmation_check"}, pc : {"interpreting"},
                 sql : {SqlCount, SqlLimit}, explain : Explains, confirm : BOOLEAN,
                 estimated : {Unknown}, events : {<<"thinking", "interpreting">>},
                 pending : {FALSE}, executed : {FALSE}]

\* chat.py 457: estimated = estimate_rows(sql, readonly_db)
run_estimate_rows ==
    /\ call.fn = "confirmation_check"
    /\ call.pc = "interpreting"
    /\ call' = [call EXCEPT !.pc = "estimated", !.estimated = estimate_rows(call.explain)]
    /\ UNCHANGED <<chatvars, kv, obs>>

\* chat.py 458-486: the pending message, awaiting_confirmation, done
defer ==
    \E commit_ok \in BOOLEAN :
      call' = [call EXCEPT
                 !.pc = "returned",
                 !.pending = commit_ok,
                 !.events = @ \o (IF commit_ok
                                  THEN <<"awaiting_confirmation", "done">>
                                  ELSE ExceptArm)]

\* chat.py 488-494: executing, execute_sql
execute ==
    call' = [call EXCEPT !.pc = "executing", !.executed = TRUE,
                         !.events = @ \o <<"executing">>]

\* chat.py 458-494
confirmation_check ==
    /\ call.fn = "confirmation_check"
    /\ call.pc = "estimated"
    /\ IF Deferred(call.estimated, call.confirm) THEN defer ELSE execute
    /\ UNCHANGED <<chatvars, kv, obs>>

NextConfirmation == run_estimate_rows \/ confirmation_check

SpecConfirmation == InitConfirmation /\ [][NextConfirmation]_vars

\* EXPLAIN gave a plan with a row estimate
EstimateKnown == call.explain.kind = "plan_rows"

\* the stream took the deferral branch: no executing event, no execute_sql
TookDeferral ==
    /\ call.pc = "returned"
    /\ ~call.executed
    /\ \A i \in 1..Len(call.events) : call.events[i] # "executing"

\* the stream went on to execute
TookExecution == call.pc = "executing" /\ call.executed /\ ~call.pending

\* C30: a query is deferred to confirmation if and only if the row estimate
\* is known, is strictly greater than QUERY_CONFIRMATION_THRESHOLD, and the
\* request has confirm=false; with an unknown estimate or confirm=true the
\* orchestrator goes on to execute.
C30_Deferral ==
    (call.fn = "confirmation_check" /\ call.pc \in {"returned", "executing"}) =>
        /\ TookDeferral <=> (/\ EstimateKnown
                             /\ call.explain.rows > QUERY_CONFIRMATION_THRESHOLD
                             /\ ~call.confirm)
        /\ (~EstimateKnown \/ call.confirm) => TookExecution
        /\ TookDeferral \/ TookExecution

\* an estimate just above the threshold deferred a query sent without the
\* confirm flag; its message awaits confirmation
C30_Witness ==
    /\ call.fn = "confirmation_check"
    /\ call.explain = [kind |-> "plan_rows", rows |-> QUERY_CONFIRMATION_THRESHOLD + 1]
    /\ ~call.confirm
    /\ TookDeferral
    /\ call.pending

(***************************************************************************)
(* executor.py on statements described by their text: a head, a number of  *)
(* ORDER BY clauses, an optional LIMIT of the statement itself, and what   *)
(* trails it (whitespace, a semicolon).  A piece of text is known by its   *)
(* width and by where the letters "limit" start in it, in either case.     *)
(***************************************************************************)
MaxPads == 2

NoLimit == -1

\* [text, width, offset of the letters l-i-m-i-t or NoLimit, the most rows
\* the head can select or NoLimit]
Heads ==
    { [text |-> "SELECT * FROM floats", width |-> 20, at |-> NoLimit, most |-> NoLimit],
      [text |-> "SELECT * FROM (SELECT * FROM floats LIMIT 5) AS sub",
       width |-> 51, at |-> 36, most |-> 5],
      [text |-> "SELECT depth_limit FROM floats", width |-> 30, at |-> 13,
       most |-> NoLimit] }

\* " ORDER BY platform_number, float_type DESC"
PadWidth == 42

\* the LIMIT a statement may carry itself, around the ceiling
OwnLimits(max_rows) == {NoLimit, max_rows - 1, max_rows, max_rows + 1}

Trailers == {"", " ; "}

Digits(n) == IF n < 10 THEN 1 ELSE IF n < 100 THEN 2 ELSE IF n < 1000 THEN 3 ELSE 4

\* " LIMIT n" or " limit n"
OwnLimitWidth(own) == IF own = NoLimit THEN 0 ELSE 7 + Digits(own)

Statements(max_rows) ==
    [head : Heads, pads : 0..MaxPads, own : OwnLimits(max_rows),
     lower : BOOLEAN, trailer : Trailers]

\* len(sql.strip().rstrip(";").strip())
StrippedWidth(stmt) == stmt.head.width + stmt.pads * PadWidth + OwnLimitWidth(stmt.own)

\* the keyword of the statement's own LIMIT as written
Keyword(stmt) == IF stmt.lower THEN "limit" ELSE "LIMIT"

\* str.upper() on that keyword
Upper(word) == IF word = "limit" THEN "LIMIT" ELSE word

\* where "LIMIT" starts in stripped.upper()
LimitOffsets(stmt) ==
    (IF stmt.head.at = NoLimit THEN {} ELSE {stmt.head.at})
    \cup (IF stmt.own # NoLimit /\ Upper(Keyword(stmt)) = "LIMIT"
          THEN {stmt.head.width + stmt.pads * PadWidth + 1}
          ELSE {})

\* a check that looks for the statement's own LIMIT clause
ends_with_limit(stmt) == stmt.own # NoLimit

\* executor.py 142-153: "LIMIT" in stripped[-80:].upper()
tail_has_limit(stmt) ==
    \E at \in LimitOffsets(stmt) : StrippedWidth(stmt) - at <= 80

\* executor.py 156-168: the statement run, and the cap of its wrapping
\* ("SELECT * FROM (clean) AS _q LIMIT max_rows"), NoLimit when run verbatim
effective_sql(stmt, max_rows) ==
    IF tail_has_limit(stmt)
    THEN [inner |-> stmt, outer |-> NoLimit]
    ELSE [inner |-> [stmt EXCEPT !.trailer = ""], outer |-> max_rows]

Capped(n, limit) == IF limit = NoLimit THEN n ELSE Min(n, limit)

\* the rows the database returns for a statement run: `avail` rows match
\* its head; a LIMIT inside the head, its own LIMIT and the wrapping LIMIT
\* cut them
fetchall(effective, avail) ==
    Capped(Capped(Capped(avail, effective.inner.head.most), effective.inner.own),
           effective.outer)

\* executor.py 57-88
execute_statement(stmt, db, max_rows) ==
    IF db.throws
    THEN ExecutionResult(TRUE, 0, FALSE, TRUE)
    ELSE LET n == fetchall(effective_sql(stmt, max_rows), db.avail)
         IN ExecutionResult(FALSE, n, n >= max_rows /\ ~tail_has_limit(stmt), TRUE)

\* what the statement's head matches in the database
Available(max_rows) == {0, max_rows - 1, max_rows, max_rows + 2}

InitExecutor ==
    /\ InitChat(<<>>, 0)
    /\ kv = NoKv
    /\ obs = NoObs
    /\ call \in [fn : {"execute_sql"}, pc : {"start"},
                 sql : Statements(QUERY_MAX_ROWS), max_rows : {QUERY_MAX_ROWS},
                 db : [throws : {FALSE}, avail : Available(QUERY_MAX_ROWS)]
                      \cup [throws : {TRUE}, avail : {0}],
                 wrapped : {FALSE},
                 result : {ExecutionResult(FALSE, 0, FALSE, TRUE)}]

run_execute_sql ==
    /\ call.fn = "execute_sql"
    /\ call.pc = "start"
    /\ call' = [call EXCEPT
                  !.pc = "returned",
                  !.wrapped = effective_sql(call.sql, call.max_rows).outer # NoLimit,
                  !.result = execute_statement(call.sql, call.db, call.max_rows)]
    /\ UNCHANGED <<chatvars, kv, obs>>

SpecExecutor == InitExecutor /\ [][run_execute_sql]_vars

ExecutorReturned == call.fn = "execute_sql" /\ call.pc = "returned" /\ ~call.result.error

\* C31: execute_sql never returns more rows than max_rows, whatever the
\* validated SQL contains: its own LIMIT, or the text LIMIT within its last
\* 80 characters.
C31_Original ==
    ExecutorReturned => call.result.row_count <= call.max_rows

\* the statement ends with a LIMIT clause of its own
OwnLimit == call.sql.own # NoLimit

\* the letters LIMIT, of a clause of the statement or of anything else, lie
\* within the last 80 characters of the statement
LimitTextInTail ==
    \/ OwnLimit
    \/ /\ call.sql.head.at # NoLimit
       /\ call.sql.head.width + call.sql.pads * PadWidth - call.sql.head.at <= 80

ReachesCap == call.result.row_count = call.max_rows

ThrowsAt(k) ==
    /\ call.has_key
    /\ k \in 1..call.max_retries
    /\ call.replies[k] = LlmThrow
    /\ \A i \in 1..(k - 1) : Fails(call.replies[i])

\* C33: an exception thrown by the LLM call is terminal: nl_to_sql returns
\* an error at once, makes no further LLM call and returns no SQL.
C33_ThrowIsTerminal ==
    (call.fn = "nl_to_sql" /\ call.done) =>
        \A k \in 1..MaxRetries :
          ThrowsAt(k) =>
            /\ call.result.error = "llm_call_failed"
            /\ call.result.sql = NoSql
            /\ call.result.llm_calls = k

\* the second call threw after a rejected reply; the third reply would have
\* been valid SQL and was never asked for
C33_Witness ==
    /\ call.fn = "nl_to_sql" /\ call.done
    /\ ThrowsAt(2)
    /\ call.max_retries >= 3
    /\ call.replies[3] = SqlCount
    /\ call.result.llm_calls = 2
    /\ call.result.sql = NoSql

\* attempt k gives SQL that passes validation, every attempt before it
\* having failed extraction or validation
AcceptedAt(k) ==
    /\ call.has_key
    /\ k \in 1..call.max_retries
    /\ call.replies[k] \notin {LlmThrow, LlmProse}
    /\ PassesAllChecks(call.replies[k])
    /\ \A i \in 1..(k - 1) : Fails(call.replies[i])

\* C34: when nl_to_sql succeeds, retries_used is the number of failed
\* attempts before the accepted SQL: 0 on a first-attempt success, 1 after
\* exactly one rejected reply.
C34_RetriesUsed ==
    (call.fn = "nl_to_sql" /\ call.done) =>
        /\ \A k \in 1..MaxRetries :
             AcceptedAt(k) =>
               /\ call.result.error = NoError
               /\ call.result.sql = call.replies[k]
               /\ call.result.retries_used = k - 1
               /\ Len(call.result.validation_errors) = k - 1
        /\ (call.result.error = NoError /\ call.result.sql # NoSql) =>
              AcceptedAt(call.result.retries_used + 1)

\* one reply was rejected by the validator, the second was accepted
C34_Witness ==
    /\ call.fn = "nl_to_sql" /\ call.done
    /\ call.replies[1] = SqlDelete
    /\ AcceptedAt(2)
    /\ call.result.retries_used = 1

(***************************************************************************)
(* query.py: POST /query, the endpoint without a stream.  It reads and     *)
(* writes the context list under the key of the session id the client      *)
(* sends, the key the chat endpoints use for that session.                 *)
(***************************************************************************)
\* the list a chat turn has left under the key, or none
StoredContexts == {Absent, json_dumps(<<Turn("user"), Turn("assistant")>>)}

\* context.py 107-122 on the value of the key: GET, append, trim, SET
appended(raw, turn, max_turns) ==
    json_dumps(trim(Append(stored_turns(raw), turn), max_turns))

\* append_context(redis_client, session_id, turn, settings) for each turn
RECURSIVE append_all(_, _, _)
append_all(raw, turns, max_turns) ==
    IF turns = <<>> THEN raw
    ELSE append_all(appended(raw, Head(turns), max_turns), Tail(turns), max_turns)

\* how the endpoint ends and the turns it appends before it returns
\* (lines 130-209)
query_outcome(res, confirm_execution, estimated, er) ==
    IF res.error # NoError \/ res.sql = NoSql
    THEN [ended |-> "pipeline_failure", turns |-> <<Turn("user")>>]
    ELSE IF ~confirm_execution /\ estimated # Unknown
                              /\ estimated > QUERY_CONFIRMATION_THRESHOLD
    THEN [ended |-> "confirmation_required", turns |-> <<>>]
    ELSE IF er.error
    THEN [ended |-> "executor_failure", turns |-> <<>>]
    ELSE [ended |-> "completed", turns |-> <<Turn("user"), Turn("assistant")>>]

InitQuery ==
    /\ InitChat(<<>>, 0)
    /\ obs = NoObs
    /\ kv \in {[NoKv EXCEPT !.up = up, !.ctx = ctx] :
                 up \in BOOLEAN, ctx \in StoredContexts}
    /\ call \in [fn : {"query_endpoint"}, pc : {"start"}, redis_client : BOOLEAN,
                 res : PipelineOutcomes, confirm_execution : BOOLEAN,
                 ended : {"none"}]

\* query.py 99-209
query_endpoint ==
    /\ call.fn = "query_endpoint"
    /\ call.pc = "start"
    /\ \E estimated \in Estimates, db \in DbOutcomes(call.res.sql) :
         LET er == execute_sql(call.res.sql, db, QUERY_MAX_ROWS)
             out == query_outcome(call.res, call.confirm_execution, estimated, er)
         IN /\ call' = [call EXCEPT !.pc = "returned", !.ended = out.ended]
            /\ kv' = IF call.redis_client /\ kv.up
                     THEN [kv EXCEPT !.ctx = append_all(@, out.turns, obs.max_turns)]
                     ELSE kv
    /\ UNCHANGED <<chatvars, obs>>

SpecQuery == InitQuery /\ [][query_endpoint]_vars

\* the request ended without a completed turn
EndsIncomplete(c) ==
    /\ c.fn = "query_endpoint"
    /\ c.pc = "returned"
    /\ c.ended \in {"pipeline_failure", "executor_failure", "confirmation_required"}

\* C35: the context of a session is written only after a turn has
\* completed: a request that ends in pipeline failure, executor failure or
\* a demand for confirmation leaves the stored context unchanged.
C35_Original ==
    [][EndsIncomplete(call') => kv'.ctx = kv.ctx]_vars

(***************************************************************************)
(* chat.py 519-597: what the query stream does after execute_sql has       *)
(* returned rows: the interpretation call, the results event, the          *)
(* follow-up call, the suggestions event, the completed message, done.     *)
(***************************************************************************)
\* what the LLM does when asked: it answers or the call raises
LlmAnswers == {"answers", "raises"}

\* what the text of a follow-up answer parses to: questions or nothing
FollowUpTexts == {"questions", "unparsable"}

\* interpret_results without its second try: the error of the provider
\* reaches the stream
interpret_results_uncaught(has_key, llm, row_count) ==
    IF ~has_key THEN Returns("template")
    ELSE IF llm = "raises" THEN Raises
    ELSE Returns("llm")

\* pipeline.py 350-421
interpret_results(has_key, llm, row_count) ==
    IF ~has_key THEN Returns("template")              \* line 387
    ELSE IF llm = "raises" THEN Returns("template")   \* line 421
    ELSE Returns("llm")

\* follow_ups.py 98-150
parse_suggestions(content) == IF content = "questions" THEN "some" ELSE "empty"

\* follow_ups.py 23-95
generate_follow_up_suggestions(has_key, llm, content) ==
    IF ~has_key THEN Returns("empty")
    ELSE IF llm = "raises" THEN Returns("empty")
    ELSE Returns(parse_suggestions(content))

InitAnswer ==
    /\ InitChat(<<>>, 0)
    /\ kv = NoKv
    /\ obs = NoObs
    /\ call \in [fn : {"answer"}, pc : {"executed"},
                 has_key : BOOLEAN, interpret_llm : LlmAnswers,
                 follow_llm : LlmAnswers, follow_text : FollowUpTexts,
                 jsonable : BOOLEAN, row_count : {0, 2},
                 events : {<<"thinking", "interpreting", "executing">>},
                 interpretation : {"none"}, follow_ups : {"none"},
                 commit : {"none"}, status : {"none"}]

\* the `except Exception` arm of the generator
answer_aborts == [call EXCEPT !.pc = "returned", !.events = @ \o ExceptArm]

\* chat.py 519-539: interpret_results, the results event
answer_results ==
    /\ call.fn = "answer"
    /\ call.pc = "executed"
    /\ LET interpretation == interpret_results(call.has_key, call.interpret_llm,
                                               call.row_count)
       IN call' = IF interpretation.raised \/ ~call.jsonable
                  THEN answer_aborts
                  ELSE [call EXCEPT !.pc = "results",
                                    !.interpretation = interpretation.value,
                                    !.events = @ \o <<"results">>]
    /\ UNCHANGED <<chatvars, kv, obs>>

\* chat.py 541-553: the follow-up call in its try, the suggestions event
answer_suggestions ==
    /\ call.fn = "answer"
    /\ call.pc = "results"
    /\ call' = [call EXCEPT
                  !.pc = "suggested",
                  !.follow_ups =
                      TryOr(generate_follow_up_suggestions(call.has_key, call.follow_llm,
                                                           call.follow_text),
                            "empty"),
                  !.events = @ \o <<"suggestions">>]
    /\ UNCHANGED <<chatvars, kv, obs>>

\* chat.py 555-597: the completed message, its commit, done
answer_persist ==
    /\ call.fn = "answer"
    /\ call.pc = "suggested"
    /\ \E commit_ok \in BOOLEAN :
         call' = IF commit_ok
                 THEN [call EXCEPT !.pc = "returned", !.commit = "ok",
                                   !.status = "completed",
                                   !.events = @ \o <<"done">>]
                 ELSE [answer_aborts EXCEPT !.commit = "raised"]
    /\ UNCHANGED <<chatvars, kv, obs>>

NextAnswer == answer_results \/ answer_suggestions \/ answer_persist

SpecAnswer == InitAnswer /\ [][NextAnswer]_vars

InterpretationFailed == ~call.has_key \/ call.interpret_llm = "raises"
FollowUpFailed == ~call.has_key \/ call.follow_llm = "raises"

\* the stream has ended after a failure of one of the two LLM calls
EndedAfterLlmFailure ==
    /\ call.fn = "answer"
    /\ call.pc = "returned"
    /\ InterpretationFailed \/ FollowUpFailed

Emitted(e) == \E i \in 1..Len(call.events) : call.events[i] = e

CompletedStream ==
    /\ call.events = <<"thinking", "interpreting", "executing",
                       "results", "suggestions", "done">>
    /\ call.status = "completed"
    /\ InterpretationFailed => call.interpretation = "template"
    /\ FollowUpFailed => call.follow_ups = "empty"

MaxFloats == 3

\* settings.EMBEDDING_BATCH_SIZE
BatchSizes == {1, 2}

\* a batch: embed_texts returns its vectors, embed_texts raises, or a
\* write to float_embeddings raises
BatchOutcomes == {"ok", "embedding_raises", "upsert_raises"}

EmbeddingRow(float_id, status) == [float_id |-> float_id, status |-> status]

\* indexer.py 453-512: INSERT ... ON CONFLICT (float_id) DO UPDATE
upsert_float_embedding(table, float_id, status) ==
    IF \E i \in 1..Len(table) : table[i].float_id = float_id
    THEN [i \in 1..Len(table) |->
            IF table[i].float_id = float_id THEN EmbeddingRow(float_id, status)
            ELSE table[i]]
    ELSE Append(table, EmbeddingRow(float_id, status))

RECURSIVE upsert_batch(_, _, _, _)
upsert_batch(table, lo, hi, status) ==
    IF lo > hi THEN table
    ELSE upsert_batch(upsert_float_embedding(table, lo, status), lo + 1, hi, status)

\* a failed batch recorded like one that succeeded
batch_status_unrecorded(outcome) == IF outcome = "ok" THEN "indexed" ELSE "indexed"

\* lines 277-309: the status the floats of a batch are recorded with
batch_status(outcome) == IF outcome = "ok" THEN "indexed" ELSE "embedding_failed"

\* tables an earlier run may have left: no row, or a row for float 1
EarlierTables == {<<>>, <<EmbeddingRow(1, "indexed")>>, <<EmbeddingRow(1, "embedding_failed")>>}

InitFloats ==
    /\ InitChat(<<>>, 0)
    /\ kv = NoKv
    /\ obs = NoObs
    /\ call \in [fn : {"index_floats"}, pc : {"batches"},
                 total : 0..MaxFloats, batch_size : BatchSizes,
                 batch_start : {0}, table : EarlierTables,
                 failed_floats : {{}},
                 result : {NoFloats}, raised : {FALSE}]

\* lines 243-253 and 310-318: no batch is left; the counts are returned
index_floats_return ==
    /\ call.fn = "index_floats"
    /\ call.pc = "batches"
    /\ call.batch_start >= call.total
    /\ call' = [call EXCEPT !.pc = "returned", !.result.total = call.total]
    /\ UNCHANGED <<chatvars, kv, obs>>

\* lines 269-308: one turn of the loop over the batches
index_floats_batch ==
    /\ call.fn = "index_floats"
    /\ call.pc = "batches"
    /\ call.batch_start < call.total
    /\ \E outcome \in BatchOutcomes :
         LET lo == call.batch_start + 1
             hi == Min(call.batch_start + call.batch_size, call.total)
             n == hi - lo + 1
         IN call' =
              IF outcome = "upsert_raises"
              THEN [call EXCEPT !.pc = "returned", !.raised = TRUE]
              ELSE [call EXCEPT
                      !.batch_start = @ + call.batch_size,
                      !.table = upsert_batch(@, lo, hi, batch_status(outcome)),
                      !.failed_floats = IF outcome = "ok" THEN @ ELSE @ \cup (lo..hi),
                      !.result.succeeded = IF outcome = "ok" THEN @ + n ELSE @,
                      !.result.failed = IF outcome = "ok" THEN @ ELSE @ + n]
    /\ UNCHANGED <<chatvars, kv, obs>>

NextFloats == index_floats_batch \/ index_floats_return

SpecFloats == InitFloats /\ [][NextFloats]_vars

FloatsRunEnded == call.fn = "index_floats" /\ call.pc = "returned"

RowsOf(float_id) == {i \in 1..Len(call.table) : call.table[i].float_id = float_id}

\* every float has one row, embedding_failed for the floats of the batches
\* whose embedding failed and indexed for the others; the counts add up
AllRecorded ==
    /\ \A f \in 1..call.total :
         /\ Cardinality(RowsOf(f)) = 1
         /\ \A i \in RowsOf(f) :
              call.table[i].status =
                 IF f \in call.failed_floats THEN "embedding_failed" ELSE "indexed"
    /\ call.result.succeeded + call.result.failed = call.result.total
    /\ call.result.total = call.total
    /\ call.result.failed = Cardinality(call.failed_floats)

TASK_MAX_RETRIES == 3

TransientErrors == {"APIConnectionError", "RateLimitError"}
PermanentErrors == {"AuthenticationError", "NotFoundError"}

\* what the embedding provider does when a phase calls it
ProviderOutcomes == {"ok"} \cup TransientErrors \cup PermanentErrors

\* indexer.py 181-197 and 277-296: embed_single / embed_texts inside
\* `try ... except Exception`: the error is recorded, nothing is raised
embedding_phase(provider) ==
    IF provider = "ok" THEN Returns("indexed") ELSE Returns("embedding_failed")

\* indexer.py 161-169: no dataset row, no call of the provider
dataset_phase(dataset_exists, provider) ==
    IF ~dataset_exists THEN Returns("not_found") ELSE embedding_phase(provider)

\* tasks.py 69-132: how a run of the task ends, given what is raised in its
\* try block
task_ends(raised) ==
    IF raised = "none" THEN "returns"
    ELSE IF raised \in PermanentErrors THEN "returns_error"     \* lines 99-111
    ELSE IF raised \in TransientErrors THEN "raises"            \* lines 113-115
    ELSE "returns_error"                                        \* lines 117-129

InitTask ==
    /\ InitChat(<<>>, 0)
    /\ kv = NoKv
    /\ obs = NoObs
    /\ call \in [fn : {"task_runner"}, pc : {"queued"},
                 dataset_exists : BOOLEAN,
                 dataset_provider : ProviderOutcomes,
                 floats_provider : ProviderOutcomes,
                 client_error : {"none", "OpenAIError"},
                 retries : {0},
                 ended : {"none"}, dataset : {"none"}, floats : {"none"}]

\* one run of the task and the runner's answer to it: a run that raises one
\* of autoretry_for is scheduled again while retries < max_retries.
\* reindex_dataset keeps what its phases raise (indexer.py 345-363).
index_dataset_task ==
    /\ call.fn = "task_runner"
    /\ call.pc = "queued"
    /\ LET dataset == TryOr(dataset_phase(call.dataset_exists, call.dataset_provider),
                            "failed")
           floats == TryOr(embedding_phase(call.floats_provider), "failed")
           raised == call.client_error
           ended == task_ends(raised)
           retried == ended = "raises" /\ call.retries < TASK_MAX_RETRIES
       IN call' = [call EXCEPT
                     !.ended = ended,
                     !.dataset = IF raised = "none" THEN dataset ELSE "none",
                     !.floats = IF raised = "none" THEN floats ELSE "none",
                     !.pc = IF retried THEN "retry_scheduled"
                            ELSE IF ended = "raises" THEN "failed"
                            ELSE "finished",
                     !.retries = IF retried THEN @ + 1 ELSE @]
    /\ UNCHANGED <<chatvars, kv, obs>>

SpecTask == InitTask /\ [][index_dataset_task]_vars

TaskRan == call.fn = "task_runner" /\ call.pc # "queued"

\* the embedding provider was called in this run and failed with a
\* transient error
TransientFailure ==
    /\ call.client_error = "none"
    /\ \/ call.dataset_exists /\ call.dataset_provider \in TransientErrors
       \/ call.floats_provider \in TransientErrors

\* C38: the task is retried by the task runner when the embedding provider
\* fails with a transient connection or rate-limit error, at most 3 times,
\* and is not retried on permanent errors.
C38_Original ==
    TaskRan =>
        /\ (TransientFailure /\ call.retries < TASK_MAX_RETRIES) =>
              call.pc = "retry_scheduled"
        /\ call.retries <= TASK_MAX_RETRIES
        /\ (~TransientFailure) => call.pc # "retry_scheduled"

(***************************************************************************)
(* The keys of the three stores in one Redis database.  A key is the list  *)
(* of its parts between colons: "query_cache:<md5>" is two parts,          *)
(* "query:context:<session>" three, "chat_suggestions" one.                *)
(***************************************************************************)
\* redis_cache.py 24-30: f"{CACHE_KEY_PREFIX}:{md5_hash}"
make_cache_key(sql_string) == <<"query_cache", sql_string>>

\* context.py 35-37: f"query:context:{session_id}"
context_key(session_id) == <<"query", "context", session_id>>

\* suggestions.py 27
SUGGESTIONS_KEY == <<"chat_suggestions">>

SessionIds == {"s1", "s2"}

StoreKeys ==
    {make_cache_key(q) : q \in CacheKeys}
    \cup {context_key(sid) : sid \in SessionIds}
    \cup {SUGGESTIONS_KEY, <<"other_key", "important">>}

\* a pattern that takes every key beginning with "query"
matches_query(key) == key[1] \in {"query_cache", "query"} /\ Len(key) >= 2

\* redis_client.keys("query_cache:*"): the key begins with "query_cache:"
matches(key) == key[1] = "query_cache" /\ Len(key) >= 2

\* how the two calls of the client end: both return, keys() raises, or
\* delete() raises
ClientOutcomes == {"ok", "keys_raises", "delete_raises"}

InitKeys ==
    /\ InitChat(<<>>, 0)
    /\ obs = NoObs
    /\ kv \in [up : {TRUE}, data : [StoreKeys -> {"absent", "value"}]]
    /\ call \in [fn : {"invalidate"}, pc : {"start"}, client : ClientOutcomes,
                 before : {<<>>}, result : {0}]

\* redis_cache.py 102-123
invalidate_by_pattern ==
    /\ call.fn = "invalidate"
    /\ call.pc = "start"
    /\ LET keys == {k \in StoreKeys : kv.data[k] # "absent" /\ matches(k)}
           deletes == call.client = "ok"
       IN /\ kv' = IF deletes
                   THEN [kv EXCEPT !.data = [k \in StoreKeys |->
                                               IF k \in keys THEN "absent" ELSE @[k]]]
                   ELSE kv
          /\ call' = [call EXCEPT !.pc = "returned", !.before = kv.data,
                                  !.result = IF deletes THEN Cardinality(keys) ELSE 0]
    /\ UNCHANGED <<chatvars, obs>>

SpecKeys == InitKeys /\ [][invalidate_by_pattern]_vars

Invalidated == call.fn = "invalidate" /\ call.pc = "returned"

CacheNamespace == {make_cache_key(q) : q \in CacheKeys}

\* C39: mass invalidation deletes every key of the query_cache namespace
\* (when the store answers) and nothing else: the context keys, the
\* suggestions key and any other key keep their values.
C39_OnlyCacheKeys ==
    Invalidated =>
        /\ call.client = "ok" => \A k \in CacheNamespace : kv.data[k] = "absent"
        /\ \A k \in StoreKeys \ CacheNamespace : kv.data[k] = call.before[k]
        /\ call.client = "ok" =>
              call.result = Cardinality({k \in CacheNamespace : call.before[k] # "absent"})

\* cache keys were deleted while a context key and the suggestions key,
\* both set, stayed
C39_Witness ==
    /\ Invalidated
    /\ call.result = 2
    /\ kv.data[context_key("s1")] = "value"
    /\ kv.data[SUGGESTIONS_KEY] = "value"
    /\ \A k \in CacheNamespace : kv.data[k] = "absent"

(***************************************************************************)
(* ingestion/tasks.py: one ingestion job, the tasks that write its status  *)
(* (update_job_status followed by a commit is one step), the sweeper of    *)
(* stale jobs and the retry endpoint.  The tasks run in worker processes   *)
(* side by side.                                                           *)
(***************************************************************************)
MaxFiles == 2
MaxJobRetries == 1

Files == 1..MaxFiles

\* writer.py 484-541: job.status = status
update_job_status(job, status) == [job EXCEPT !.status = status]

\* a job as the upload endpoint leaves it: pending, its task queued
\* (a single file is ingested by the file task of file 1)
NewJob(mode) ==
    [fn |-> "ingestion", mode |-> mode, status |-> "pending",
     zip |-> IF mode = "zip" THEN "queued" ELSE "none",
     next |-> 1, dispatched |-> 0,
     file |-> [f \in Files |-> IF mode = "file" /\ f = 1 THEN "queued" ELSE "idle"],
     retried |-> 0]

InitJobs ==
    /\ InitChat(<<>>, 0)
    /\ kv = NoKv
    /\ obs = NoObs
    /\ call \in {NewJob(mode) : mode \in {"file", "zip"}}

IsJob == call.fn = "ingestion"

\* tasks.py 395-441: running; a bad or empty archive fails the job
ingest_zip_start ==
    /\ IsJob /\ call.zip = "queued"
    /\ \E readable \in BOOLEAN :
         call' = IF readable
                 THEN [update_job_status(call, "running") EXCEPT !.zip = "dispatching"]
                 ELSE [update_job_status(call, "failed") EXCEPT !.zip = "done"]
    /\ UNCHANGED <<chatvars, kv, obs>>

\* tasks.py 446-493: one file of the archive: validated, its sub-task
\* dispatched under the job's id, the progress written
ingest_zip_dispatch ==
    /\ IsJob /\ call.zip = "dispatching"
    /\ call.next <= MaxFiles
    /\ \E is_valid \in BOOLEAN :
         call' = IF is_valid
                 THEN [update_job_status(call, "running") EXCEPT
                         !.file[call.next] = "queued",
                         !.dispatched = @ + 1,
                         !.next = @ + 1]
                 ELSE [call EXCEPT !.next = @ + 1]
    /\ UNCHANGED <<chatvars, kv, obs>>

\* tasks.py 495-518: the final status of the archive task
ingest_zip_finish ==
    /\ IsJob /\ call.zip = "dispatching"
    /\ call.next > MaxFiles
    /\ call' = [update_job_status(call, IF call.dispatched = 0 THEN "failed"
                                        ELSE "succeeded")
                  EXCEPT !.zip = "done"]
    /\ UNCHANGED <<chatvars, kv, obs>>

\* tasks.py 95-100: the file task sets the job to running
ingest_file_start(f) ==
    /\ IsJob /\ call.file[f] = "queued"
    /\ call' = [update_job_status(call, "running") EXCEPT !.file[f] = "running"]
    /\ UNCHANGED <<chatvars, kv, obs>>

\* tasks.py 123-285: a step that went well writes running and its progress
ingest_file_progress(f) ==
    /\ IsJob /\ call.file[f] = "running"
    /\ call' = [update_job_status(call, "running") EXCEPT !.file[f] = "writing"]
    /\ UNCHANGED <<chatvars, kv, obs>>

\* tasks.py 113-121, 133-141, 166-174, 249-257, 292-299, 329-343: the task
\* ends, the job failed or succeeded
ingest_file_finish(f) ==
    /\ IsJob /\ call.file[f] \in {"running", "writing"}
    /\ \E status \in {"succeeded", "failed"} :
         /\ status = "succeeded" => call.file[f] = "writing"
         /\ call' = [update_job_status(call, status) EXCEPT !.file[f] = "done"]
    /\ UNCHANGED <<chatvars, kv, obs>>

\* tasks.py 586-628: a job running for more than 30 minutes, or pending for
\* more than 15, is marked failed
retry_stale_jobs ==
    /\ IsJob /\ call.status \in {"running", "pending"}
    /\ call' = update_job_status(call, "failed")
    /\ UNCHANGED <<chatvars, kv, obs>>

\* ingestion.py 375-463: POST /datasets/jobs/{job_id}/retry resets a failed
\* job to pending and dispatches its task again
retry_job ==
    /\ IsJob /\ call.status = "failed"
    /\ call.retried < MaxJobRetries
    /\ IF call.mode = "zip" THEN call.zip = "done" ELSE call.file[1] = "done"
    /\ call' = [update_job_status(call, "pending") EXCEPT
                  !.retried = @ + 1,
                  !.zip = IF call.mode = "zip" THEN "queued" ELSE @,
                  !.next = 1, !.dispatched = 0,
                  !.file[1] = IF call.mode = "file" THEN "queued" ELSE @]
    /\ UNCHANGED <<chatvars, kv, obs>>

NextJobs ==
    \/ ingest_zip_start
    \/ ingest_zip_dispatch
    \/ ingest_zip_finish
    \/ \E f \in Files : ingest_file_start(f)
    \/ \E f \in Files : ingest_file_progress(f)
    \/ \E f \in Files : ingest_file_finish(f)
    \/ retry_stale_jobs
    \/ retry_job

SpecJobs == InitJobs /\ [][NextJobs]_vars

Terminal == {"succeeded", "failed"}

\* the step of the retry endpoint
ExplicitRetry == call.status = "failed" /\ call'.status = "pending"

\* C40: the status of a job only moves forward: once it is succeeded or
\* failed no task sets it back to running or to the other terminal status,
\* also with the file sub-tasks of an archive under one job id and with the
\* sweeper beside a live task; only an explicit retry resets a failed job.
C40_Original ==
    [][(IsJob /\ call.status \in Terminal) =>
          (call'.status = call.status \/ ExplicitRetry)]_vars


=============================================================================
